---- MODULE Spec2Model ----
(***************************************************************************)
(* A model of the fire-news backend (backend/app/apis): the scraping       *)
(* pipeline of scraping_control, the incident assembly of fires and the    *)
(* connection registry of websockets.                                      *)
(*                                                                         *)
(* Strings are sequences of characters.  An ASCII character is the         *)
(* one-character string of itself; a character outside ASCII is written    *)
(* by an ASCII name ("e_acute" is U+00E9, "ar_seen" is U+0633, "sup2" is   *)
(* U+00B2), so that "in", lower(), split(), strip() and the regular        *)
(* expressions of the source are computed character by character.          *)
(***************************************************************************)
EXTENDS Integers, Sequences, FiniteSets, TLC

VARIABLES
  fn,    \* the function or handler under call
  arg,   \* its argument(s)
  ret,   \* its result, NotCalled before it returns or raises
  pc,    \* where manual_scrape is: "idle" when it is not running, then
         \* "start", "fetch", "analyze", "return", "done"
  sources,                   \* manual_scrape: the rows of its query
  current,                   \* manual_scrape: the index of the source in the loop
  use_ai,                    \* manual_scrape: use_ai
  batch,                     \* scrape_custom_source at the call of analyze_batch: the
                             \* document fetched and articles; <<>> at other times
  results,                   \* manual_scrape: results
  total_articles,            \* manual_scrape: total_articles
  high_confidence_articles,  \* manual_scrape: high_confidence_articles
  scraped,                   \* history: what each call of scrape_custom_source met and returned
  active_connections,        \* websockets: manager.active_connections
  handler,                   \* websockets: where the websocket_endpoint of each client is
  broadcast,                 \* websockets: manager.broadcast, its connections_copy and its place in it
  attempts,                  \* history: the sends of the broadcast and how each ended
  custom_sources,            \* the rows of the table custom_sources
  id_seq                     \* the last value of the table's id sequence

pipeline == <<pc, sources, current, use_ai, batch, results, total_articles,
              high_confidence_articles, scraped>>

registry == <<active_connections, handler, broadcast, attempts>>

database == <<custom_sources, id_seq>>

vars == <<fn, arg, ret, pc, sources, current, use_ai, batch, results,
          total_articles, high_confidence_articles, scraped,
          active_connections, handler, broadcast, attempts, custom_sources, id_seq>>

\* manual_scrape is not running
NoScrape ==
  /\ pc = "idle" /\ sources = <<>> /\ current = 0 /\ use_ai = FALSE
  /\ batch = <<>> /\ results = <<>> /\ total_articles = 0
  /\ high_confidence_articles = 0 /\ scraped = <<>>

\* no websocket client and no broadcast
NoSockets ==
  /\ active_connections = <<>> /\ handler = <<>>
  /\ broadcast = [pc |-> "idle"] /\ attempts = <<>>

\* the table is not used
NoDatabase == custom_sources = {} /\ id_seq = 0

NotCalled == [kind |-> "not_called"]

\* the call has returned v
Returned(v) == [kind |-> "returned", value |-> v]

\* the call has raised an exception
Raised(e) == [kind |-> "raised", error |-> e]

None == [kind |-> "None"]

(***************************************************************************)
(* Python string operations                                                *)
(***************************************************************************)

\* str.lower() on one character: the cased characters of the alphabet in use
LowerMap ==
  [c \in {"A","B","C","D","E","F","G","H","I","J","K","L","M",
          "N","O","P","Q","R","S","T","U","V","W","X","Y","Z", "E_acute"} |->
     CASE c = "A" -> "a" [] c = "B" -> "b" [] c = "C" -> "c" [] c = "D" -> "d"
       [] c = "E" -> "e" [] c = "F" -> "f" [] c = "G" -> "g" [] c = "H" -> "h"
       [] c = "I" -> "i" [] c = "J" -> "j" [] c = "K" -> "k" [] c = "L" -> "l"
       [] c = "M" -> "m" [] c = "N" -> "n" [] c = "O" -> "o" [] c = "P" -> "p"
       [] c = "Q" -> "q" [] c = "R" -> "r" [] c = "S" -> "s" [] c = "T" -> "t"
       [] c = "U" -> "u" [] c = "V" -> "v" [] c = "W" -> "w" [] c = "X" -> "x"
       [] c = "Y" -> "y" [] c = "Z" -> "z" [] c = "E_acute" -> "e_acute"]

LowerChar(c) == IF c \in DOMAIN LowerMap THEN LowerMap[c] ELSE c

\* s.lower()
Lower(s) == [i \in 1..Len(s) |-> LowerChar(s[i])]

\* whitespace as str.strip(), str.split() and \s see it
Whitespace == {" ", "\t", "\n", "\r"}

Digits == {"0","1","2","3","4","5","6","7","8","9"}

\* the characters of the alphabet in use that \w does not match
NonWordChars == Whitespace \cup {":", "-", "'", ",", ".", ";", "!", "?", "(", ")", "/", "\""}

IsWordChar(c) == c \notin NonWordChars

\* k occurs in s at offset i (0-based): s[i+1 .. i+Len(k)] = k
OccursAt(s, k, i) ==
  /\ i >= 0
  /\ i + Len(k) <= Len(s)
  /\ \A j \in 1..Len(k) : s[i + j] = k[j]

\* k in s
Contains(s, k) == \E i \in 0..(Len(s) - Len(k)) : OccursAt(s, k, i)

\* any(k in s for k in ks)
ContainsAny(s, ks) == \E n \in 1..Len(ks) : Contains(s, ks[n])

\* s.strip()
LStrip(s) ==
  LET idx == {i \in 1..Len(s) : s[i] \notin Whitespace}
  IN  IF idx = {} THEN <<>>
      ELSE SubSeq(s, CHOOSE i \in idx : \A j \in idx : i <= j, Len(s))

RStrip(s) ==
  LET idx == {i \in 1..Len(s) : s[i] \notin Whitespace}
  IN  IF idx = {} THEN <<>>
      ELSE SubSeq(s, 1, CHOOSE i \in idx : \A j \in idx : i >= j)

Strip(s) == RStrip(LStrip(s))

\* s.split(): the maximal runs of non-whitespace characters, in order
RECURSIVE SplitFrom(_, _, _)
SplitFrom(s, i, word) ==
  IF i > Len(s)
    THEN IF word = <<>> THEN <<>> ELSE <<word>>
    ELSE IF s[i] \in Whitespace
      THEN (IF word = <<>> THEN <<>> ELSE <<word>>) \o SplitFrom(s, i + 1, <<>>)
      ELSE SplitFrom(s, i + 1, Append(word, s[i]))

Split(s) == SplitFrom(s, 1, <<>>)

\* set(seq)
SeqToSet(q) == {q[i] : i \in 1..Len(q)}

\* s[:n]
Prefix(s, n) == SubSeq(s, 1, IF Len(s) < n THEN Len(s) ELSE n)

\* " ".join(words)
RECURSIVE JoinWords(_)
JoinWords(ws) ==
  IF ws = <<>> THEN <<>>
  ELSE IF Len(ws) = 1 THEN ws[1]
  ELSE ws[1] \o <<" ">> \o JoinWords(Tail(ws))

\* re.search(A.*B, s) for alternatives As and Bs of literals: an A, then on the
\* same line (. matches no newline) a B that starts at or after the end of the A
SearchThen(s, As, Bs) ==
  \E a \in 1..Len(As), b \in 1..Len(Bs) :
    \E i \in 0..Len(s), j \in 0..Len(s) :
      /\ OccursAt(s, As[a], i)
      /\ OccursAt(s, Bs[b], j)
      /\ j >= i + Len(As[a])
      /\ \A k \in (i + Len(As[a]) + 1)..j : s[k] # "\n"

\* re.findall(r'\b' + re.escape(name) + r'\b', s) is non-empty: an occurrence of
\* name with a word boundary at each end (\b: exactly one of the two characters
\* around the position is a \w character; beyond either end counts as none)
WordAt(s, i) == i >= 1 /\ i <= Len(s) /\ IsWordChar(s[i])

BoundaryAt(s, p) == WordAt(s, p) # WordAt(s, p + 1)

FindWord(s, name) ==
  \E i \in 0..(Len(s) - Len(name)) :
    /\ OccursAt(s, name, i)
    /\ BoundaryAt(s, i)
    /\ BoundaryAt(s, i + Len(name))

(***************************************************************************)
(* Keyword tables and the gazetteer, as the source writes them             *)
(***************************************************************************)

\* is_fire_related_advanced: critical_keywords
critical_keywords ==
  << <<"i","n","c","e","n","d","i","e">>,
     <<"f","e","u">>,
     <<"b","r","a","s","i","e","r">>,
     <<"f","l","a","m","m","e","s">>,
     <<"b","r","u_circumflex","l","e">>,
     <<"e","m","b","r","a","s","e","m","e","n","t">>,
     <<"f","i","r","e">>,
     <<"b","l","a","z","e">>,
     <<"w","i","l","d","f","i","r","e">>,
     <<"f","o","r","e","s","t"," ","f","i","r","e">>,
     <<"b","r","u","s","h"," ","f","i","r","e">>,
     <<"ar_hah","ar_reh","ar_yeh","ar_qaf">>,
     <<"ar_noon","ar_alef","ar_reh">>,
     <<"ar_hah","ar_reh","ar_alef","ar_yeh_with_hamza_above","ar_qaf">> >>

\* is_fire_related_advanced: medium_keywords
medium_keywords ==
  << <<"p","o","m","p","i","e","r","s">>,
     <<"f","i","r","e","f","i","g","h","t","e","r","s">>,
     <<"p","r","o","t","e","c","t","i","o","n"," ","c","i","v","i","l","e">>,
     <<"e","v","a","c","u","a","t","i","o","n">>,
     <<"s","m","o","k","e">>,
     <<"f","u","m","e_acute","e">>,
     <<"b","u","r","n","t">>,
     <<"b","u","r","n","e","d">>,
     <<"c","o","m","b","u","s","t","i","o","n">>,
     <<"ar_alef_with_hamza_below","ar_tah","ar_feh","ar_alef","ar_hamza">>,
     <<"ar_dal","ar_khah","ar_alef","ar_noon">> >>

\* is_fire_related_advanced: context_keywords
context_keywords ==
  << <<"h","e","c","t","a","r","e","s">>,
     <<"f","o","r","e_circumflex","t">>,
     <<"f","o","r","e","s","t">>,
     <<"v","e","g","e","t","a","t","i","o","n">>,
     <<"h","o","u","s","e","s"," ","d","e","s","t","r","o","y","e","d">>,
     <<"m","a","i","s","o","n","s"," ","d","e_acute","t","r","u","i","t","e","s">>,
     <<"e","m","e","r","g","e","n","c","y">>,
     <<"u","r","g","e","n","c","e">>,
     <<"a","l","e","r","t">>,
     <<"a","l","e","r","t","e">> >>

\* is_fire_related_advanced: exclusion_keywords
exclusion_keywords ==
  << <<"g","u","n","f","i","r","e">>,
     <<"c","e","a","s","e","f","i","r","e">>,
     <<"f","i","r","e","d"," ","f","r","o","m"," ","j","o","b">>,
     <<"f","i","r","i","n","g"," ","s","q","u","a","d">>,
     <<"m","o","v","i","e">>,
     <<"f","i","l","m">>,
     <<"c","i","n","e","m","a">>,
     <<"g","a","m","e">>,
     <<"j","e","u">>,
     <<"m","a","t","c","h">>,
     <<"y","e","a","r","s"," ","a","g","o">>,
     <<"h","i","s","t","o","r","i","c","a","l">>,
     <<"a","n","n","i","v","e","r","s","a","r","y">> >>

\* determine_severity: high_severity_keywords
high_severity_keywords ==
  << <<"e","v","a","c","u","a","t","i","o","n">>,
     <<"e_acute","v","a","c","u","a","t","i","o","n">>,
     <<"ar_alef_with_hamza_below","ar_khah","ar_lam","ar_alef","ar_hamza">>,
     <<"d","e","a","d">>,
     <<"m","o","r","t">>,
     <<"ar_meem","ar_alef","ar_teh">>,
     <<"c","a","s","u","a","l","t","i","e","s">>,
     <<"v","i","c","t","i","m","e","s">>,
     <<"ar_dad","ar_hah","ar_alef","ar_yeh","ar_alef">>,
     <<"d","e","s","t","r","o","y","e","d">>,
     <<"d","e_acute","t","r","u","i","t">>,
     <<"ar_dal","ar_meem","ar_reh">>,
     <<"e","m","e","r","g","e","n","c","y">>,
     <<"u","r","g","e","n","c","e">>,
     <<"ar_tah","ar_waw","ar_alef","ar_reh","ar_yeh_with_hamza_above">>,
     <<"d","i","s","a","s","t","e","r">>,
     <<"c","a","t","a","s","t","r","o","p","h","e">>,
     <<"ar_kaf","ar_alef","ar_reh","ar_theh","ar_teh_marbuta">>,
     <<"m","a","s","s","i","v","e">>,
     <<"e_acute","n","o","r","m","e">>,
     <<"ar_heh","ar_alef","ar_yeh_with_hamza_above","ar_lam">>,
     <<"w","i","l","d","f","i","r","e">>,
     <<"f","e","u"," ","d","e"," ","f","o","r","e_circumflex","t">>,
     <<"ar_hah","ar_reh","ar_yeh","ar_qaf"," ","ar_ghain","ar_alef","ar_beh","ar_teh_marbuta">>,
     <<"o","u","t"," ","o","f"," ","c","o","n","t","r","o","l">>,
     <<"h","o","r","s"," ","d","e"," ","c","o","n","t","r","o_circumflex","l","e">> >>

\* determine_severity: medium_severity_keywords
medium_severity_keywords ==
  << <<"f","i","r","e","f","i","g","h","t","e","r","s">>,
     <<"p","o","m","p","i","e","r","s">>,
     <<"ar_reh","ar_jeem","ar_alef","ar_lam"," ","ar_alef","ar_lam","ar_alef_with_hamza_below","ar_tah","ar_feh","ar_alef","ar_hamza">>,
     <<"a","i","r","c","r","a","f","t">>,
     <<"a","v","i","o","n">>,
     <<"ar_tah","ar_alef","ar_yeh_with_hamza_above","ar_reh","ar_teh_marbuta">>,
     <<"h","e","l","i","c","o","p","t","e","r">>,
     <<"h","e_acute","l","i","c","o","p","t","e_grave","r","e">>,
     <<"ar_meem","ar_reh","ar_waw","ar_hah","ar_yeh","ar_teh_marbuta">>,
     <<"s","p","r","e","a","d","i","n","g">>,
     <<"p","r","o","p","a","g","a","t","i","o","n">>,
     <<"ar_alef","ar_noon","ar_teh","ar_sheen","ar_alef","ar_reh">>,
     <<"t","h","r","e","a","t">>,
     <<"m","e","n","a","c","e">>,
     <<"ar_teh","ar_heh","ar_dal","ar_yeh","ar_dal">>,
     <<"r","i","s","k">>,
     <<"r","i","s","q","u","e">>,
     <<"ar_khah","ar_tah","ar_reh">> >>

\* extract_location_from_title: fire_context
fire_context ==
  << <<"i","n","c","e","n","d","i","e">>,
     <<"ar_hah","ar_reh","ar_yeh","ar_qaf">>,
     <<"f","i","r","e">>,
     <<"f","e","u">>,
     <<"p","o","m","p","i","e","r">>,
     <<"c","i","v","i","l"," ","p","r","o","t","e","c","t","i","o","n">> >>

\* determine_status: first keyword list
contained_keywords ==
  << <<"c","o","n","t","a","i","n","e","d">>,
     <<"m","a","i_circumflex","t","r","i","s","e_acute">>,
     <<"ar_teh","ar_hah","ar_teh"," ","ar_alef","ar_lam","ar_seen","ar_yeh","ar_tah","ar_reh","ar_teh_marbuta">>,
     <<"e","x","t","i","n","g","u","i","s","h","e","d">>,
     <<"e_acute","t","e","i","n","t">>,
     <<"ar_alef_with_hamza_above","ar_tah","ar_feh","ar_yeh_with_hamza_above">> >>

\* determine_status: second keyword list
under_control_keywords ==
  << <<"u","n","d","e","r"," ","c","o","n","t","r","o","l">>,
     <<"s","o","u","s"," ","c","o","n","t","r","o_circumflex","l","e">>,
     <<"ar_teh","ar_hah","ar_teh"," ","ar_alef","ar_lam","ar_seen","ar_yeh","ar_tah","ar_reh","ar_teh_marbuta">> >>

\* extract_location_from_title: wilayas_map, in insertion order
wilayas_map ==
  << [code |-> 1, primary |-> <<"A","d","r","a","r">>,
      alternatives |-> << <<"A","d","r","a","r">> >>,
      arabic_names |-> << <<"ar_alef_with_hamza_above","ar_dal","ar_reh","ar_alef","ar_reh">> >>],
     [code |-> 2, primary |-> <<"C","h","l","e","f">>,
      alternatives |-> << <<"C","h","l","e","f">>, <<"E","l"," ","A","s","n","a","m">> >>,
      arabic_names |-> << <<"ar_alef","ar_lam","ar_sheen","ar_lam","ar_feh">> >>],
     [code |-> 3, primary |-> <<"L","a","g","h","o","u","a","t">>,
      alternatives |-> << <<"L","a","g","h","o","u","a","t">> >>,
      arabic_names |-> << <<"ar_alef","ar_lam","ar_alef_with_hamza_above","ar_ghain","ar_waw","ar_alef","ar_tah">> >>],
     [code |-> 4, primary |-> <<"O","u","m"," ","E","l"," ","B","o","u","a","g","h","i">>,
      alternatives |-> << <<"O","u","m"," ","E","l"," ","B","o","u","a","g","h","i">>, <<"O","u","m"," ","e","l"," ","B","o","u","a","g","h","i">> >>,
      arabic_names |-> << <<"ar_alef_with_hamza_above","ar_meem"," ","ar_alef","ar_lam","ar_beh","ar_waw","ar_alef","ar_qaf","ar_yeh">> >>],
     [code |-> 5, primary |-> <<"B","a","t","n","a">>,
      alternatives |-> << <<"B","a","t","n","a">> >>,
      arabic_names |-> << <<"ar_beh","ar_alef","ar_teh","ar_noon","ar_teh_marbuta">> >>],
     [code |-> 6, primary |-> <<"B","e_acute","j","a","i_diaeresis","a">>,
      alternatives |-> << <<"B","e","j","a","i","a">>, <<"B","e_acute","j","a","i_diaeresis","a">>, <<"B","g","a","y","e","t">> >>,
      arabic_names |-> << <<"ar_beh","ar_jeem","ar_alef","ar_yeh","ar_teh_marbuta">> >>],
     [code |-> 7, primary |-> <<"B","i","s","k","r","a">>,
      alternatives |-> << <<"B","i","s","k","r","a">> >>,
      arabic_names |-> << <<"ar_beh","ar_seen","ar_kaf","ar_reh","ar_teh_marbuta">> >>],
     [code |-> 8, primary |-> <<"B","e_acute","c","h","a","r">>,
      alternatives |-> << <<"B","e","c","h","a","r">>, <<"B","e_acute","c","h","a","r">> >>,
      arabic_names |-> << <<"ar_beh","ar_sheen","ar_alef","ar_reh">> >>],
     [code |-> 9, primary |-> <<"B","l","i","d","a">>,
      alternatives |-> << <<"B","l","i","d","a">> >>,
      arabic_names |-> << <<"ar_alef","ar_lam","ar_beh","ar_lam","ar_yeh","ar_dal","ar_teh_marbuta">> >>],
     [code |-> 10, primary |-> <<"B","o","u","i","r","a">>,
      alternatives |-> << <<"B","o","u","i","r","a">> >>,
      arabic_names |-> << <<"ar_alef","ar_lam","ar_beh","ar_waw","ar_yeh","ar_reh","ar_teh_marbuta">> >>],
     [code |-> 11, primary |-> <<"T","a","m","a","n","r","a","s","s","e","t">>,
      alternatives |-> << <<"T","a","m","a","n","r","a","s","s","e","t">>, <<"T","a","m","a","n","g","h","a","s","s","e","t">> >>,
      arabic_names |-> << <<"ar_teh","ar_meem","ar_noon","ar_reh","ar_alef","ar_seen","ar_teh">> >>],
     [code |-> 12, primary |-> <<"T","e_acute","b","e","s","s","a">>,
      alternatives |-> << <<"T","e","b","e","s","s","a">>, <<"T","e_acute","b","e","s","s","a">> >>,
      arabic_names |-> << <<"ar_teh","ar_beh","ar_seen","ar_teh_marbuta">> >>],
     [code |-> 13, primary |-> <<"T","l","e","m","c","e","n">>,
      alternatives |-> << <<"T","l","e","m","c","e","n">> >>,
      arabic_names |-> << <<"ar_teh","ar_lam","ar_meem","ar_seen","ar_alef","ar_noon">> >>],
     [code |-> 14, primary |-> <<"T","i","a","r","e","t">>,
      alternatives |-> << <<"T","i","a","r","e","t">> >>,
      arabic_names |-> << <<"ar_teh","ar_yeh","ar_alef","ar_reh","ar_teh">> >>],
     [code |-> 15, primary |-> <<"T","i","z","i"," ","O","u","z","o","u">>,
      alternatives |-> << <<"T","i","z","i"," ","O","u","z","o","u">>, <<"T","i","z","i","-","O","u","z","o","u">> >>,
      arabic_names |-> << <<"ar_teh","ar_yeh","ar_zain","ar_yeh"," ","ar_waw","ar_zain","ar_waw">> >>],
     [code |-> 16, primary |-> <<"A","l","g","i","e","r","s">>,
      alternatives |-> << <<"A","l","g","e","r">>, <<"A","l","g","i","e","r","s">>, <<"D","z","a","y","e","r">> >>,
      arabic_names |-> << <<"ar_alef","ar_lam","ar_jeem","ar_zain","ar_alef","ar_yeh_with_hamza_above","ar_reh">> >>],
     [code |-> 17, primary |-> <<"D","j","e","l","f","a">>,
      alternatives |-> << <<"D","j","e","l","f","a">> >>,
      arabic_names |-> << <<"ar_alef","ar_lam","ar_jeem","ar_lam","ar_feh","ar_teh_marbuta">> >>],
     [code |-> 18, primary |-> <<"J","i","j","e","l">>,
      alternatives |-> << <<"J","i","j","e","l">> >>,
      arabic_names |-> << <<"ar_jeem","ar_yeh","ar_jeem","ar_lam">> >>],
     [code |-> 19, primary |-> <<"S","e_acute","t","i","f">>,
      alternatives |-> << <<"S","e","t","i","f">>, <<"S","e_acute","t","i","f">> >>,
      arabic_names |-> << <<"ar_seen","ar_tah","ar_yeh","ar_feh">> >>],
     [code |-> 20, primary |-> <<"S","a","i_diaeresis","d","a">>,
      alternatives |-> << <<"S","a","i","d","a">>, <<"S","a","i_diaeresis","d","a">> >>,
      arabic_names |-> << <<"ar_seen","ar_ain","ar_yeh","ar_dal","ar_teh_marbuta">> >>],
     [code |-> 21, primary |-> <<"S","k","i","k","d","a">>,
      alternatives |-> << <<"S","k","i","k","d","a">> >>,
      arabic_names |-> << <<"ar_seen","ar_kaf","ar_yeh","ar_kaf","ar_dal","ar_teh_marbuta">> >>],
     [code |-> 22, primary |-> <<"S","i","d","i"," ","B","e","l"," ","A","b","b","e_grave","s">>,
      alternatives |-> << <<"S","i","d","i"," ","B","e","l"," ","A","b","b","e","s">>, <<"S","i","d","i"," ","B","e","l"," ","A","b","b","e_grave","s">> >>,
      arabic_names |-> << <<"ar_seen","ar_yeh","ar_dal","ar_yeh"," ","ar_beh","ar_lam","ar_ain","ar_beh","ar_alef","ar_seen">> >>],
     [code |-> 23, primary |-> <<"A","n","n","a","b","a">>,
      alternatives |-> << <<"A","n","n","a","b","a">> >>,
      arabic_names |-> << <<"ar_ain","ar_noon","ar_alef","ar_beh","ar_teh_marbuta">> >>],
     [code |-> 24, primary |-> <<"G","u","e","l","m","a">>,
      alternatives |-> << <<"G","u","e","l","m","a">> >>,
      arabic_names |-> << <<"ar_qaf","ar_alef","ar_lam","ar_meem","ar_teh_marbuta">> >>],
     [code |-> 25, primary |-> <<"C","o","n","s","t","a","n","t","i","n","e">>,
      alternatives |-> << <<"C","o","n","s","t","a","n","t","i","n","e">> >>,
      arabic_names |-> << <<"ar_qaf","ar_seen","ar_noon","ar_tah","ar_yeh","ar_noon","ar_teh_marbuta">> >>],
     [code |-> 26, primary |-> <<"M","e_acute","d","e_acute","a">>,
      alternatives |-> << <<"M","e","d","e","a">>, <<"M","e_acute","d","e_acute","a">> >>,
      arabic_names |-> << <<"ar_alef","ar_lam","ar_meem","ar_dal","ar_yeh","ar_teh_marbuta">> >>],
     [code |-> 27, primary |-> <<"M","o","s","t","a","g","a","n","e","m">>,
      alternatives |-> << <<"M","o","s","t","a","g","a","n","e","m">> >>,
      arabic_names |-> << <<"ar_meem","ar_seen","ar_teh","ar_ghain","ar_alef","ar_noon","ar_meem">> >>],
     [code |-> 28, primary |-> <<"M","'","S","i","l","a">>,
      alternatives |-> << <<"M","s","i","l","a">>, <<"M","'","S","i","l","a">> >>,
      arabic_names |-> << <<"ar_alef","ar_lam","ar_meem","ar_seen","ar_yeh","ar_lam","ar_teh_marbuta">> >>],
     [code |-> 29, primary |-> <<"M","a","s","c","a","r","a">>,
      alternatives |-> << <<"M","a","s","c","a","r","a">> >>,
      arabic_names |-> << <<"ar_meem","ar_ain","ar_seen","ar_kaf","ar_reh">> >>],
     [code |-> 30, primary |-> <<"O","u","a","r","g","l","a">>,
      alternatives |-> << <<"O","u","a","r","g","l","a">> >>,
      arabic_names |-> << <<"ar_waw","ar_reh","ar_qaf","ar_lam","ar_teh_marbuta">> >>],
     [code |-> 31, primary |-> <<"O","r","a","n">>,
      alternatives |-> << <<"O","r","a","n">>, <<"W","a","h","r","a","n">> >>,
      arabic_names |-> << <<"ar_waw","ar_heh","ar_reh","ar_alef","ar_noon">> >>],
     [code |-> 32, primary |-> <<"E","l"," ","B","a","y","a","d","h">>,
      alternatives |-> << <<"E","l"," ","B","a","y","a","d","h">> >>,
      arabic_names |-> << <<"ar_alef","ar_lam","ar_beh","ar_yeh","ar_dad">> >>],
     [code |-> 33, primary |-> <<"I","l","l","i","z","i">>,
      alternatives |-> << <<"I","l","l","i","z","i">> >>,
      arabic_names |-> << <<"ar_alef_with_hamza_below","ar_lam","ar_yeh","ar_zain","ar_yeh">> >>],
     [code |-> 34, primary |-> <<"B","o","r","d","j"," ","B","o","u"," ","A","r","r","e_acute","r","i","d","j">>,
      alternatives |-> << <<"B","o","r","d","j"," ","B","o","u"," ","A","r","r","e","r","i","d","j">>, <<"B","B","A">> >>,
      arabic_names |-> << <<"ar_beh","ar_reh","ar_jeem"," ","ar_beh","ar_waw","ar_ain","ar_reh","ar_yeh","ar_reh","ar_yeh","ar_jeem">> >>],
     [code |-> 35, primary |-> <<"B","o","u","m","e","r","d","e_grave","s">>,
      alternatives |-> << <<"B","o","u","m","e","r","d","e","s">>, <<"B","o","u","m","e","r","d","e_grave","s">> >>,
      arabic_names |-> << <<"ar_beh","ar_waw","ar_meem","ar_reh","ar_dal","ar_alef","ar_seen">> >>],
     [code |-> 36, primary |-> <<"E","l"," ","T","a","r","f">>,
      alternatives |-> << <<"E","l"," ","T","a","r","f">> >>,
      arabic_names |-> << <<"ar_alef","ar_lam","ar_tah","ar_alef","ar_reh","ar_feh">> >>],
     [code |-> 37, primary |-> <<"T","i","n","d","o","u","f">>,
      alternatives |-> << <<"T","i","n","d","o","u","f">> >>,
      arabic_names |-> << <<"ar_teh","ar_noon","ar_dal","ar_waw","ar_feh">> >>],
     [code |-> 38, primary |-> <<"T","i","s","s","e","m","s","i","l","t">>,
      alternatives |-> << <<"T","i","s","s","e","m","s","i","l","t">> >>,
      arabic_names |-> << <<"ar_teh","ar_yeh","ar_seen","ar_meem","ar_seen","ar_yeh","ar_lam","ar_teh">> >>],
     [code |-> 39, primary |-> <<"E","l"," ","O","u","e","d">>,
      alternatives |-> << <<"E","l"," ","O","u","e","d">> >>,
      arabic_names |-> << <<"ar_alef","ar_lam","ar_waw","ar_alef","ar_dal","ar_yeh">> >>],
     [code |-> 40, primary |-> <<"K","h","e","n","c","h","e","l","a">>,
      alternatives |-> << <<"K","h","e","n","c","h","e","l","a">> >>,
      arabic_names |-> << <<"ar_khah","ar_noon","ar_sheen","ar_lam","ar_teh_marbuta">> >>],
     [code |-> 41, primary |-> <<"S","o","u","k"," ","A","h","r","a","s">>,
      alternatives |-> << <<"S","o","u","k"," ","A","h","r","a","s">> >>,
      arabic_names |-> << <<"ar_seen","ar_waw","ar_qaf"," ","ar_alef_with_hamza_above","ar_heh","ar_reh","ar_alef","ar_seen">> >>],
     [code |-> 42, primary |-> <<"T","i","p","a","z","a">>,
      alternatives |-> << <<"T","i","p","a","z","a">> >>,
      arabic_names |-> << <<"ar_teh","ar_yeh","ar_beh","ar_alef","ar_zain","ar_teh_marbuta">> >>],
     [code |-> 43, primary |-> <<"M","i","l","a">>,
      alternatives |-> << <<"M","i","l","a">> >>,
      arabic_names |-> << <<"ar_meem","ar_yeh","ar_lam","ar_teh_marbuta">> >>],
     [code |-> 44, primary |-> <<"A","i_diaeresis","n"," ","D","e","f","l","a">>,
      alternatives |-> << <<"A","i","n"," ","D","e","f","l","a">>, <<"A","i_diaeresis","n"," ","D","e","f","l","a">> >>,
      arabic_names |-> << <<"ar_ain","ar_yeh","ar_noon"," ","ar_alef","ar_lam","ar_dal","ar_feh","ar_lam","ar_alef_maksura">> >>],
     [code |-> 45, primary |-> <<"N","a","a_circumflex","m","a">>,
      alternatives |-> << <<"N","a","a","m","a">>, <<"N","a","a_circumflex","m","a">> >>,
      arabic_names |-> << <<"ar_alef","ar_lam","ar_noon","ar_ain","ar_alef","ar_meem","ar_teh_marbuta">> >>],
     [code |-> 46, primary |-> <<"A","i_diaeresis","n"," ","T","e_acute","m","o","u","c","h","e","n","t">>,
      alternatives |-> << <<"A","i","n"," ","T","e","m","o","u","c","h","e","n","t">>, <<"A","i_diaeresis","n"," ","T","e_acute","m","o","u","c","h","e","n","t">> >>,
      arabic_names |-> << <<"ar_ain","ar_yeh","ar_noon"," ","ar_teh","ar_meem","ar_waw","ar_sheen","ar_noon","ar_teh">> >>],
     [code |-> 47, primary |-> <<"G","h","a","r","d","a","i_diaeresis","a">>,
      alternatives |-> << <<"G","h","a","r","d","a","i","a">>, <<"G","h","a","r","d","a","i_diaeresis","a">> >>,
      arabic_names |-> << <<"ar_ghain","ar_reh","ar_dal","ar_alef","ar_yeh","ar_teh_marbuta">> >>],
     [code |-> 48, primary |-> <<"R","e","l","i","z","a","n","e">>,
      alternatives |-> << <<"R","e","l","i","z","a","n","e">> >>,
      arabic_names |-> << <<"ar_ghain","ar_lam","ar_yeh","ar_zain","ar_alef","ar_noon">> >>],
     [code |-> 49, primary |-> <<"T","i","m","i","m","o","u","n">>,
      alternatives |-> << <<"T","i","m","i","m","o","u","n">> >>,
      arabic_names |-> << <<"ar_teh","ar_yeh","ar_meem","ar_yeh","ar_meem","ar_waw","ar_noon">> >>],
     [code |-> 50, primary |-> <<"B","o","r","d","j"," ","B","a","d","j","i"," ","M","o","k","h","t","a","r">>,
      alternatives |-> << <<"B","o","r","d","j"," ","B","a","d","j","i"," ","M","o","k","h","t","a","r">> >>,
      arabic_names |-> << <<"ar_beh","ar_reh","ar_jeem"," ","ar_beh","ar_alef","ar_jeem","ar_yeh"," ","ar_meem","ar_khah","ar_teh","ar_alef","ar_reh">> >>],
     [code |-> 51, primary |-> <<"O","u","l","e","d"," ","D","j","e","l","l","a","l">>,
      alternatives |-> << <<"O","u","l","e","d"," ","D","j","e","l","l","a","l">> >>,
      arabic_names |-> << <<"ar_alef_with_hamza_above","ar_waw","ar_lam","ar_alef","ar_dal"," ","ar_jeem","ar_lam","ar_alef","ar_lam">> >>],
     [code |-> 52, primary |-> <<"B","e_acute","n","i"," ","A","b","b","e_grave","s">>,
      alternatives |-> << <<"B","e","n","i"," ","A","b","b","e","s">>, <<"B","e_acute","n","i"," ","A","b","b","e_grave","s">> >>,
      arabic_names |-> << <<"ar_beh","ar_noon","ar_yeh"," ","ar_ain","ar_beh","ar_alef","ar_seen">> >>],
     [code |-> 53, primary |-> <<"I","n"," ","S","a","l","a","h">>,
      alternatives |-> << <<"I","n"," ","S","a","l","a","h">> >>,
      arabic_names |-> << <<"ar_ain","ar_yeh","ar_noon"," ","ar_sad","ar_alef","ar_lam","ar_hah">> >>],
     [code |-> 54, primary |-> <<"I","n"," ","G","u","e","z","z","a","m">>,
      alternatives |-> << <<"I","n"," ","G","u","e","z","z","a","m">> >>,
      arabic_names |-> << <<"ar_ain","ar_yeh","ar_noon"," ","ar_qaf","ar_zain","ar_alef","ar_meem">> >>],
     [code |-> 55, primary |-> <<"T","o","u","g","g","o","u","r","t">>,
      alternatives |-> << <<"T","o","u","g","g","o","u","r","t">> >>,
      arabic_names |-> << <<"ar_teh","ar_qaf","ar_reh","ar_teh">> >>],
     [code |-> 56, primary |-> <<"D","j","a","n","e","t">>,
      alternatives |-> << <<"D","j","a","n","e","t">> >>,
      arabic_names |-> << <<"ar_jeem","ar_alef","ar_noon","ar_teh">> >>],
     [code |-> 57, primary |-> <<"E","l"," ","M","'","G","h","a","i","r">>,
      alternatives |-> << <<"E","l"," ","M","g","h","a","i","r">>, <<"E","l"," ","M","'","G","h","a","i","r">> >>,
      arabic_names |-> << <<"ar_alef","ar_lam","ar_meem","ar_ghain","ar_yeh","ar_reh">> >>],
     [code |-> 58, primary |-> <<"E","l"," ","M","e","n","i","a","a">>,
      alternatives |-> << <<"E","l"," ","M","e","n","i","a","a">> >>,
      arabic_names |-> << <<"ar_alef","ar_lam","ar_meem","ar_noon","ar_yeh","ar_ain","ar_teh_marbuta">> >>] >>

\* WILAYA_COORDINATES; lat and lon in units of 1/10000 degree
WILAYA_COORDINATES ==
  << [name |-> <<"A","d","r","a","r">>,
      lat |-> 279744, lon |-> -2841, code |-> 1],
     [name |-> <<"C","h","l","e","f">>,
      lat |-> 361652, lon |-> 13369, code |-> 2],
     [name |-> <<"L","a","g","h","o","u","a","t">>,
      lat |-> 338008, lon |-> 28644, code |-> 3],
     [name |-> <<"O","u","m"," ","E","l"," ","B","o","u","a","g","h","i">>,
      lat |-> 358753, lon |-> 71135, code |-> 4],
     [name |-> <<"B","a","t","n","a">>,
      lat |-> 355559, lon |-> 61741, code |-> 5],
     [name |-> <<"B","e_acute","j","a","i_diaeresis","a">>,
      lat |-> 367525, lon |-> 50626, code |-> 6],
     [name |-> <<"B","i","s","k","r","a">>,
      lat |-> 348481, lon |-> 57244, code |-> 7],
     [name |-> <<"B","e_acute","c","h","a","r">>,
      lat |-> 316177, lon |-> -22286, code |-> 8],
     [name |-> <<"B","l","i","d","a">>,
      lat |-> 364203, lon |-> 28277, code |-> 9],
     [name |-> <<"B","o","u","i","r","a">>,
      lat |-> 363736, lon |-> 39030, code |-> 10],
     [name |-> <<"T","a","m","a","n","r","a","s","s","e","t">>,
      lat |-> 227851, lon |-> 55281, code |-> 11],
     [name |-> <<"T","e_acute","b","e","s","s","a">>,
      lat |-> 354040, lon |-> 81244, code |-> 12],
     [name |-> <<"T","l","e","m","c","e","n">>,
      lat |-> 348786, lon |-> -13150, code |-> 13],
     [name |-> <<"T","i","a","r","e","t">>,
      lat |-> 353711, lon |-> 13170, code |-> 14],
     [name |-> <<"T","i","z","i"," ","O","u","z","o","u">>,
      lat |-> 367118, lon |-> 40435, code |-> 15],
     [name |-> <<"A","l","g","i","e","r","s">>,
      lat |-> 367538, lon |-> 30588, code |-> 16],
     [name |-> <<"D","j","e","l","f","a">>,
      lat |-> 346814, lon |-> 32631, code |-> 17],
     [name |-> <<"J","i","j","e","l">>,
      lat |-> 368190, lon |-> 57667, code |-> 18],
     [name |-> <<"S","e_acute","t","i","f">>,
      lat |-> 361914, lon |-> 54072, code |-> 19],
     [name |-> <<"S","a","i_diaeresis","d","a">>,
      lat |-> 348302, lon |-> 1514, code |-> 20],
     [name |-> <<"S","k","i","k","d","a">>,
      lat |-> 368760, lon |-> 69095, code |-> 21],
     [name |-> <<"S","i","d","i"," ","B","e","l"," ","A","b","b","e_grave","s">>,
      lat |-> 351977, lon |-> -6388, code |-> 22],
     [name |-> <<"A","n","n","a","b","a">>,
      lat |-> 369000, lon |-> 77667, code |-> 23],
     [name |-> <<"G","u","e","l","m","a">>,
      lat |-> 364612, lon |-> 74286, code |-> 24],
     [name |-> <<"C","o","n","s","t","a","n","t","i","n","e">>,
      lat |-> 363650, lon |-> 66147, code |-> 25],
     [name |-> <<"M","e_acute","d","e_acute","a">>,
      lat |-> 362639, lon |-> 27531, code |-> 26],
     [name |-> <<"M","o","s","t","a","g","a","n","e","m">>,
      lat |-> 359315, lon |-> 890, code |-> 27],
     [name |-> <<"M","'","S","i","l","a">>,
      lat |-> 357056, lon |-> 45414, code |-> 28],
     [name |-> <<"M","a","s","c","a","r","a">>,
      lat |-> 353968, lon |-> 1407, code |-> 29],
     [name |-> <<"O","u","a","r","g","l","a">>,
      lat |-> 319539, lon |-> 53249, code |-> 30],
     [name |-> <<"O","r","a","n">>,
      lat |-> 356969, lon |-> -6331, code |-> 31],
     [name |-> <<"E","l"," ","B","a","y","a","d","h">>,
      lat |-> 336809, lon |-> 10176, code |-> 32],
     [name |-> <<"I","l","l","i","z","i">>,
      lat |-> 265044, lon |-> 84667, code |-> 33],
     [name |-> <<"B","o","r","d","j"," ","B","o","u"," ","A","r","r","e_acute","r","i","d","j">>,
      lat |-> 360731, lon |-> 47689, code |-> 34],
     [name |-> <<"B","o","u","m","e","r","d","e_grave","s">>,
      lat |-> 367667, lon |-> 34167, code |-> 35],
     [name |-> <<"E","l"," ","T","a","r","f">>,
      lat |-> 367672, lon |-> 83137, code |-> 36],
     [name |-> <<"T","i","n","d","o","u","f">>,
      lat |-> 276710, lon |-> -81676, code |-> 37],
     [name |-> <<"T","i","s","s","e","m","s","i","l","t">>,
      lat |-> 356075, lon |-> 18108, code |-> 38],
     [name |-> <<"E","l"," ","O","u","e","d">>,
      lat |-> 333564, lon |-> 68531, code |-> 39],
     [name |-> <<"K","h","e","n","c","h","e","l","a">>,
      lat |-> 354361, lon |-> 71433, code |-> 40],
     [name |-> <<"S","o","u","k"," ","A","h","r","a","s">>,
      lat |-> 362864, lon |-> 79511, code |-> 41],
     [name |-> <<"T","i","p","a","z","a">>,
      lat |-> 365944, lon |-> 24475, code |-> 42],
     [name |-> <<"M","i","l","a">>,
      lat |-> 364503, lon |-> 62647, code |-> 43],
     [name |-> <<"A","i_diaeresis","n"," ","D","e","f","l","a">>,
      lat |-> 362639, lon |-> 19675, code |-> 44],
     [name |-> <<"N","a","a_circumflex","m","a">>,
      lat |-> 332667, lon |-> -3000, code |-> 45],
     [name |-> <<"A","i_diaeresis","n"," ","T","e_acute","m","o","u","c","h","e","n","t">>,
      lat |-> 352981, lon |-> -10411, code |-> 46],
     [name |-> <<"G","h","a","r","d","a","i_diaeresis","a">>,
      lat |-> 324839, lon |-> 36736, code |-> 47],
     [name |-> <<"R","e","l","i","z","a","n","e">>,
      lat |-> 357364, lon |-> 5564, code |-> 48],
     [name |-> <<"T","i","m","i","m","o","u","n">>,
      lat |-> 292631, lon |-> 2406, code |-> 49],
     [name |-> <<"B","o","r","d","j"," ","B","a","d","j","i"," ","M","o","k","h","t","a","r">>,
      lat |-> 213167, lon |-> 9167, code |-> 50],
     [name |-> <<"O","u","l","e","d"," ","D","j","e","l","l","a","l">>,
      lat |-> 344167, lon |-> 50833, code |-> 51],
     [name |-> <<"B","e_acute","n","i"," ","A","b","b","e_grave","s">>,
      lat |-> 301167, lon |-> -21667, code |-> 52],
     [name |-> <<"I","n"," ","S","a","l","a","h">>,
      lat |-> 272167, lon |-> 24667, code |-> 53],
     [name |-> <<"I","n"," ","G","u","e","z","z","a","m">>,
      lat |-> 195667, lon |-> 57667, code |-> 54],
     [name |-> <<"T","o","u","g","g","o","u","r","t">>,
      lat |-> 331167, lon |-> 60667, code |-> 55],
     [name |-> <<"D","j","a","n","e","t">>,
      lat |-> 245500, lon |-> 94833, code |-> 56],
     [name |-> <<"E","l"," ","M","'","G","h","a","i","r">>,
      lat |-> 339500, lon |-> 59167, code |-> 57],
     [name |-> <<"E","l"," ","M","e","n","i","a","a">>,
      lat |-> 305833, lon |-> 28833, code |-> 58] >>

(***************************************************************************)
(* scraping_control: is_fire_related_advanced                              *)
(***************************************************************************)

\* for keyword in keywords: if keyword in text_lower: score += weight
RECURSIVE WeightedHits(_, _, _)
WeightedHits(s, ks, weight) ==
  IF ks = <<>> THEN 0
  ELSE (IF Contains(s, ks[1]) THEN weight ELSE 0) + WeightedHits(s, Tail(ks), weight)

\* r'\d+\s*(hectares?|km2|kilometres?).*(?:brule|burned|detruit)': a digit, any
\* whitespace, a unit (its optional s is taken by .*), then an ending on the same line
HectaresPattern(s) ==
  LET units == << <<"h","e","c","t","a","r","e">>, <<"k","m","sup2">>, <<"k","i","l","o","m","e","t","r","e">> >>
      ends  == << <<"b","r","u_circumflex","l","e_acute">>, <<"b","u","r","n","e","d">>, <<"d","e_acute","t","r","u","i","t">> >>
  IN  \E u \in 1..Len(units), e \in 1..Len(ends) :
        \E i \in 1..Len(s), j \in 0..Len(s) :
          /\ OccursAt(s, units[u], i)
          /\ \E d \in 1..i : s[d] \in Digits /\ \A k \in (d + 1)..i : s[k] \in Whitespace
          /\ OccursAt(s, ends[e], j)
          /\ j >= i + Len(units[u])
          /\ \A k \in (i + Len(units[u]) + 1)..j : s[k] # "\n"

\* r'(?:incendie|fire).*(?:maitrise|controlled|contained)'
ContainedPattern(s) ==
  SearchThen(s, << <<"i","n","c","e","n","d","i","e">>, <<"f","i","r","e">> >>,
                << <<"m","a","i_circumflex","t","r","i","s","e_acute">>, <<"c","o","n","t","r","o","l","l","e","d">>, <<"c","o","n","t","a","i","n","e","d">> >>)

\* r'(?:pompiers|firefighters).*(?:intervenu|responded)'
RespondedPattern(s) ==
  SearchThen(s, << <<"p","o","m","p","i","e","r","s">>, <<"f","i","r","e","f","i","g","h","t","e","r","s">> >>,
                << <<"i","n","t","e","r","v","e","n","u">>, <<"r","e","s","p","o","n","d","e","d">> >>)

\* for pattern in fire_patterns: if re.search(pattern, text_lower): score += 2
PatternBonus(s) ==
  (IF HectaresPattern(s) THEN 2 ELSE 0)
  + (IF ContainedPattern(s) THEN 2 ELSE 0)
  + (IF RespondedPattern(s) THEN 2 ELSE 0)

\* RelevanceScore without the exclusion keywords
RelevanceScore_no_exclusion(text) ==
  LET text_lower == Lower(text)
  IN  WeightedHits(text_lower, critical_keywords, 3)
      + WeightedHits(text_lower, medium_keywords, 2)
      + WeightedHits(text_lower, context_keywords, 1)
      + PatternBonus(text_lower)

RelevanceScore(text) ==
  LET text_lower == Lower(text)
  IN  WeightedHits(text_lower, critical_keywords, 3)
      + WeightedHits(text_lower, medium_keywords, 2)
      + WeightedHits(text_lower, context_keywords, 1)
      + WeightedHits(text_lower, exclusion_keywords, -5)
      + PatternBonus(text_lower)

\* is_fire_related_advanced without the test of the length
is_fire_related_advanced_no_length_check(text) ==
  IF text = <<>> THEN FALSE
  ELSE RelevanceScore(text) >= 3

is_fire_related_advanced(text) ==
  IF text = <<>> \/ Len(text) < 10 THEN FALSE
  ELSE RelevanceScore(text) >= 3

(***************************************************************************)
(* Inputs of the relevance scorer                                          *)
(***************************************************************************)

MaxRelevanceWords == 3

RelevanceWords ==
  << <<"i","n","c","e","n","d","i","e">>, <<"F","i","r","e">>, <<"m","o","v","i","e">>, <<"p","o","m","p","i","e","r","s">>,
     <<"a","l","e","r","t","e">>, <<"i","n","t","e","r","v","e","n","u">>, <<"5"," ","h","e","c","t","a","r","e","s"," ","b","r","u_circumflex","l","e_acute">> >>

ExampleRelevant == <<"U","n"," ","g","r","a","n","d"," ","i","n","c","e","n","d","i","e"," ","a"," ","d","e_acute","t","r","u","i","t"," ","p","l","u","s","i","e","u","r","s"," ","m","a","i","s","o","n","s">>

ExampleIrrelevant == <<"T","h","e"," ","m","o","v","i","e"," ","w","a","s"," ","a"," ","b","o","x","-","o","f","f","i","c","e"," ","f","i","r","e">>

\* the sequences of length n of elements of S
TuplesOf(S, n) == {SubSeq(f, 1, n) : f \in [1..n -> S]}

WordSeqs(n, maxLen) == UNION {[1..k -> 1..n] : k \in 0..maxLen}

TextOf(words, idx) == JoinWords([i \in 1..Len(idx) |-> words[idx[i]]])

RelevanceTexts ==
  {TextOf(RelevanceWords, q) : q \in WordSeqs(Len(RelevanceWords), MaxRelevanceWords)}
    \cup {ExampleRelevant, ExampleIrrelevant}

InitRelevance ==
  /\ fn = "is_fire_related_advanced"
  /\ arg \in RelevanceTexts
  /\ ret = NotCalled
  /\ NoScrape /\ NoSockets /\ NoDatabase

CallRelevance ==
  /\ fn = "is_fire_related_advanced"
  /\ ret.kind = "not_called"
  /\ ret' = Returned(is_fire_related_advanced(arg))
  /\ UNCHANGED <<fn, arg>>
  /\ UNCHANGED pipeline
  /\ UNCHANGED <<registry, database>>

SpecRelevance == InitRelevance /\ [][CallRelevance]_vars

(***************************************************************************)
(* Python floats.  A float is the IEEE-754 double it is, written exactly   *)
(* as an integer number of units of 2^-56 in two limbs of 28 bits:         *)
(* value = (hi * 2^28 + lo) * 2^-56.  Every double in [2^-4, 2) is such an *)
(* integer; an addition is the exact sum rounded to 53 significant bits,   *)
(* ties to even.                                                           *)
(***************************************************************************)

Limb == 2^28

\* the literals 0.0, 0.1, 0.2, 0.7, 0.9 and 1.0: the doubles nearest to them
F_0_0 == [hi |-> 0, lo |-> 0]

F_0_1 == [hi |-> 26843545, lo |-> 161061274]

F_0_2 == [hi |-> 53687091, lo |-> 53687092]

F_0_7 == [hi |-> 187904819, lo |-> 53687088]

F_0_9 == [hi |-> 241591910, lo |-> 107374184]

F_1_0 == [hi |-> 268435456, lo |-> 0]

\* x < y and x <= y
FloatLt(x, y) == x.hi < y.hi \/ (x.hi = y.hi /\ x.lo < y.lo)

FloatLe(x, y) == x = y \/ FloatLt(x, y)

\* the spacing of the doubles around x, in units of 2^-56, for x in [2^-4, 2)
Ulp(x) ==
  IF x.hi >= 2^28 THEN 16
  ELSE IF x.hi >= 2^27 THEN 8
  ELSE IF x.hi >= 2^26 THEN 4
  ELSE IF x.hi >= 2^25 THEN 2
  ELSE 1

\* an exact value rounded to the nearest double, ties to even
RoundToDouble(x) ==
  LET ulp  == Ulp(x)
      r    == x.lo % ulp
      down == x.lo - r
      up   == (2 * r > ulp) \/ (2 * r = ulp /\ (down \div ulp) % 2 = 1)
      lo2  == IF up THEN down + ulp ELSE down
  IN  [hi |-> x.hi + (lo2 \div Limb), lo |-> lo2 % Limb]

\* x + y
FloatAdd(x, y) ==
  LET lo == x.lo + y.lo
  IN  RoundToDouble([hi |-> x.hi + y.hi + (lo \div Limb), lo |-> lo % Limb])

\* min(x, y)
FloatMin(x, y) == IF FloatLt(y, x) THEN y ELSE x

(***************************************************************************)
(* fires: extract_location_from_title                                      *)
(***************************************************************************)

\* all_names = [primary] + alternatives + arabic_names
AllNames(w) == <<w.primary>> \o w.alternatives \o w.arabic_names

\* MatchConfidence without the cap min(confidence, 1.0)
MatchConfidence_uncapped(name, primary, title, text_to_search) ==
  LET base == F_0_7
      c1 == IF Contains(Lower(title), Lower(name)) THEN FloatAdd(base, F_0_2) ELSE base
      c2 == IF Lower(name) = Lower(primary) THEN FloatAdd(c1, F_0_1) ELSE c1
  IN  IF ContainsAny(text_to_search, fire_context) THEN FloatAdd(c2, F_0_1) ELSE c2

\* MatchConfidence without the 0.2 of a name found in the title
MatchConfidence_no_title_bonus(name, primary, title, text_to_search) ==
  LET base == F_0_7
      c2 == IF Lower(name) = Lower(primary) THEN FloatAdd(base, F_0_1) ELSE base
      c3 == IF ContainsAny(text_to_search, fire_context) THEN FloatAdd(c2, F_0_1) ELSE c2
  IN  FloatMin(c3, F_1_0)

\* the confidence of one matched name
MatchConfidence(name, primary, title, text_to_search) ==
  LET base == F_0_7
      c1 == IF Contains(Lower(title), Lower(name)) THEN FloatAdd(base, F_0_2) ELSE base
      c2 == IF Lower(name) = Lower(primary) THEN FloatAdd(c1, F_0_1) ELSE c1
      c3 == IF ContainsAny(text_to_search, fire_context) THEN FloatAdd(c2, F_0_1) ELSE c2
  IN  FloatMin(c3, F_1_0)

\* the positions <<w, n>> of the two loops: region w of wilayas_map.items(), name
\* n of its all_names
NamePositions ==
  {<<w, n>> : w \in 1..Len(wilayas_map), n \in 1..5} \cap
    {p \in (1..Len(wilayas_map)) \X (1..5) : p[2] <= Len(AllNames(wilayas_map[p[1]]))}

\* position p is visited before position q
VisitedBefore(p, q) == p[1] < q[1] \/ (p[1] = q[1] /\ p[2] < q[2])

\* returns (best_match, best_confidence).  The loops start from (None, 0.0) and
\* replace the best match only by one of strictly greater confidence, and every
\* match has a confidence above 0.0: what they leave is the first visited of the
\* matches of greatest confidence.
extract_location_from_title(title, summary) ==
  LET text_to_search == Lower(title \o <<" ">> \o summary)
      name(p) == AllNames(wilayas_map[p[1]])[p[2]]
      primary(p) == wilayas_map[p[1]].primary
      matches == {p \in NamePositions : FindWord(text_to_search, Lower(name(p)))}
      confidence == [p \in matches |->
                       MatchConfidence(name(p), primary(p), title, text_to_search)]
      best == CHOOSE p \in matches : \A q \in matches \ {p} :
                \/ FloatLt(confidence[q], confidence[p])
                \/ confidence[q] = confidence[p] /\ VisitedBefore(p, q)
  IN  IF matches = {} THEN [match |-> None, confidence |-> F_0_0]
      ELSE [match |-> primary(best), confidence |-> confidence[best]]

(***************************************************************************)
(* fires: determine_severity, determine_status                             *)
(***************************************************************************)

\* determine_severity with the two tiers tested in the other order
determine_severity_medium_first(title, summary) ==
  LET text == Lower(title \o <<" ">> \o summary)
  IN  IF ContainsAny(text, medium_severity_keywords) THEN "High"
      ELSE IF ContainsAny(text, high_severity_keywords) THEN "Critical"
      ELSE "Medium"

determine_severity(title, summary) ==
  LET text == Lower(title \o <<" ">> \o summary)
  IN  IF ContainsAny(text, high_severity_keywords) THEN "Critical"
      ELSE IF ContainsAny(text, medium_severity_keywords) THEN "High"
      ELSE "Medium"

determine_status(title, summary) ==
  LET text == Lower(title \o <<" ">> \o summary)
  IN  IF ContainsAny(text, contained_keywords) THEN "Contained"
      ELSE IF ContainsAny(text, under_control_keywords) THEN "Under Control"
      ELSE "Active"

(***************************************************************************)
(* fires: get_active_fires                                                 *)
(***************************************************************************)

\* ord(c) for the characters of timestamps
CodePoint(c) ==
  CASE c = " " -> 32 [] c = "-" -> 45 [] c = "." -> 46 [] c = "0" -> 48
    [] c = "1" -> 49 [] c = "2" -> 50 [] c = "3" -> 51 [] c = "4" -> 52
    [] c = "5" -> 53 [] c = "6" -> 54 [] c = "7" -> 55 [] c = "8" -> 56
    [] c = "9" -> 57 [] c = ":" -> 58 [] c = "R" -> 82 [] c = "T" -> 84
    [] c = "c" -> 99 [] c = "e" -> 101 [] c = "n" -> 110 [] c = "t" -> 116

\* s < t for strings: at the first difference, or s a proper prefix of t
StrLt(s, t) ==
  \E i \in 1..(Len(t)) :
    /\ \A j \in 1..(i - 1) : j <= Len(s) /\ s[j] = t[j]
    /\ i - 1 <= Len(s)
    /\ (i > Len(s) \/ CodePoint(s[i]) < CodePoint(t[i]))

\* the sort key (x.confidence, x.timestamp): a < b as tuples
KeyLt(a, b) ==
  \/ FloatLt(a.confidence, b.confidence)
  \/ a.confidence = b.confidence /\ StrLt(a.timestamp, b.timestamp)

\* the sort with the confidence as its only key
RECURSIVE SortIncidents_confidence_only(_)
SortIncidents_confidence_only(q) ==
  IF q = <<>> THEN <<>>
  ELSE LET rest == SortIncidents_confidence_only(SubSeq(q, 1, Len(q) - 1))
           x    == q[Len(q)]
           k    == Cardinality({i \in 1..Len(rest) :
                                  ~FloatLt(rest[i].confidence, x.confidence)})
       IN  SubSeq(rest, 1, k) \o <<x>> \o SubSeq(rest, k + 1, Len(rest))

\* list.sort(key=..., reverse=True): descending, and stable (equal keys keep
\* their order)
RECURSIVE SortIncidents(_)
SortIncidents(q) ==
  IF q = <<>> THEN <<>>
  ELSE LET rest == SortIncidents(SubSeq(q, 1, Len(q) - 1))
           x    == q[Len(q)]
           \* x goes after every element whose key is not below its own
           k    == Cardinality({i \in 1..Len(rest) : ~KeyLt(rest[i], x)})
       IN  SubSeq(rest, 1, k) \o <<x>> \o SubSeq(rest, k + 1, Len(rest))

\* wilaya_name in WILAYA_COORDINATES, WILAYA_COORDINATES[wilaya_name]
HasCoordinates(wilaya_name) ==
  \E i \in 1..Len(WILAYA_COORDINATES) : WILAYA_COORDINATES[i].name = wilaya_name

Coordinates(wilaya_name) ==
  WILAYA_COORDINATES[CHOOSE i \in 1..Len(WILAYA_COORDINATES) :
                       WILAYA_COORDINATES[i].name = wilaya_name]

\* the unknown location keeps the resolver's 0.0
UnknownLocationConfidence_not_set == F_0_0

\* confidence = 0.1 for an unknown location
UnknownLocationConfidence == F_0_1

\* dict.get(key, default)
Get(d, key, default) == IF key \in DOMAIN d THEN d[key] ELSE default

\* the timestamp read from the clock whatever the article says
Timestamp_from_clock(article, now) == now

\* timestamp=article.get("published", datetime.utcnow().isoformat())
Timestamp(article, now) == Get(article, "published", now)

\* the incident of an article whose location resolved to found = (wilaya_name,
\* confidence); id is the uuid drawn and now is utcnow().isoformat()
Incident(article, id, now, found) ==
  LET title   == Get(article, "title", <<>>)
      summary == Get(article, "summary", <<>>)
      known   == found.match # None /\ HasCoordinates(found.match)
      coords  == Coordinates(found.match)
      ai_result == Get(article, "ai_result", <<>>)
  IN  [id |-> id,
       location |->
         IF known
           THEN [lat |-> coords.lat, lon |-> coords.lon,
                 wilaya |-> found.match, wilaya_code |-> coords.code]
           ELSE [lat |-> 367538, lon |-> 30588,
                 wilaya |-> <<"U","n","k","n","o","w","n">>, wilaya_code |-> None],
       timestamp |-> Timestamp(article, now),
       severity |-> determine_severity(title, summary),
       status |-> determine_status(title, summary),
       description |-> title \o <<":", " ">> \o summary,
       link |-> Get(article, "link", <<>>),
       source |-> Get(article, "source", <<"U","n","k","n","o","w","n">>),
       confidence |-> IF known THEN found.confidence ELSE UnknownLocationConfidence,
       fire_type |-> Get(ai_result, "fire_type", None),
       casualties |-> Get(ai_result, "casualties", None),
       emergency_services |-> Get(ai_result, "emergency_services", None),
       affected_area |-> Get(ai_result, "affected_area", None),
       cause |-> Get(ai_result, "cause", None),
       weather_conditions |-> Get(ai_result, "weather_conditions", None),
       evacuation_info |-> Get(ai_result, "evacuation_info", None),
       damage_assessment |-> Get(ai_result, "damage_assessment", None),
       date_mentioned |-> Get(ai_result, "date_mentioned", None),
       ai_enhanced |-> Get(article, "ai_enhanced", FALSE)]

\* the element of a one-element set (binds a value once it is computed)
TheOnly(S) == CHOOSE x \in S : TRUE

\* the body of the loop over the articles: one incident
BuildIncident(article, id, now) ==
  TheOnly({Incident(article, id, now, found) :
             found \in {extract_location_from_title(Get(article, "title", <<>>),
                                                    Get(article, "summary", <<>>))}})

\* incidents.append(incident), for each article
RECURSIVE BuildIncidents(_, _, _)
BuildIncidents(articles, ids, now) ==
  IF articles = <<>> THEN <<>>
  ELSE <<BuildIncident(articles[1], ids[1], now[1])>>
         \o BuildIncidents(Tail(articles), Tail(ids), Tail(now))

\* the incidents of the articles, sorted; ids[i] and now[i] are the uuid and the
\* clock reading of the i-th iteration
get_active_fires(articles, ids, now) ==
  TheOnly({SortIncidents(incidents) : incidents \in {BuildIncidents(articles, ids, now)}})

(***************************************************************************)
(* Inputs of the location resolver and of the classifiers                  *)
(***************************************************************************)

MaxTitleWords == 2

MaxSummaryWords == 1

\* an alias, a canonical name, its unaccented alias, a later canonical name, an
\* Arabic name, context terms, severity terms of both tiers
FireWords ==
  << <<"A","l","g","e","r">>, <<"S","e_acute","t","i","f">>, <<"S","e","t","i","f">>, <<"S","k","i","k","d","a">>, <<"ar_seen","ar_tah","ar_yeh","ar_feh">>,
     <<"I","n","c","e","n","d","i","e">>, <<"f","u","m","e_acute","e">>, <<"e_acute","v","a","c","u","a","t","i","o","n">>, <<"a","v","i","o","n">> >>

FireTitles ==
  {TextOf(FireWords, q) : q \in WordSeqs(Len(FireWords), MaxTitleWords)}

FireSummaries ==
  {TextOf(FireWords, q) : q \in WordSeqs(Len(FireWords), MaxSummaryWords)}

\* the three under-control terms, containment terms in both cases, a term of
\* neither list
StatusWords ==
  << <<"u","n","d","e","r"," ","c","o","n","t","r","o","l">>, <<"s","o","u","s"," ","c","o","n","t","r","o_circumflex","l","e">>, <<"ar_teh","ar_hah","ar_teh"," ","ar_alef","ar_lam","ar_seen","ar_yeh","ar_tah","ar_reh","ar_teh_marbuta">>,
     <<"m","a","i_circumflex","t","r","i","s","e_acute">>, <<"E_acute","t","e","i","n","t">>, <<"ar_alef_with_hamza_above","ar_tah","ar_feh","ar_yeh_with_hamza_above">>, <<"C","o","n","t","a","i","n","e","d">>, <<"I","n","c","e","n","d","i","e">> >>

StatusTitles ==
  {TextOf(StatusWords, q) : q \in WordSeqs(Len(StatusWords), MaxTitleWords)}

StatusSummaries ==
  {TextOf(StatusWords, q) : q \in WordSeqs(Len(StatusWords), MaxSummaryWords)}

InitClassify ==
  /\ \/ /\ fn \in {"extract_location_from_title", "determine_severity"}
        /\ arg \in [title : FireTitles, summary : FireSummaries]
     \/ /\ fn = "determine_status"
        /\ arg \in [title : StatusTitles, summary : StatusSummaries]
  /\ ret = NotCalled
  /\ NoScrape /\ NoSockets /\ NoDatabase

CallLocation ==
  /\ fn = "extract_location_from_title"
  /\ ret.kind = "not_called"
  /\ ret' = Returned(extract_location_from_title(arg.title, arg.summary))
  /\ UNCHANGED <<fn, arg>>
  /\ UNCHANGED pipeline
  /\ UNCHANGED <<registry, database>>

CallSeverity ==
  /\ fn = "determine_severity"
  /\ ret.kind = "not_called"
  /\ ret' = Returned(determine_severity(arg.title, arg.summary))
  /\ UNCHANGED <<fn, arg>>
  /\ UNCHANGED pipeline
  /\ UNCHANGED <<registry, database>>

CallStatus ==
  /\ fn = "determine_status"
  /\ ret.kind = "not_called"
  /\ ret' = Returned(determine_status(arg.title, arg.summary))
  /\ UNCHANGED <<fn, arg>>
  /\ UNCHANGED pipeline
  /\ UNCHANGED <<registry, database>>

NextClassify == CallLocation \/ CallSeverity \/ CallStatus

SpecClassify == InitClassify /\ [][NextClassify]_vars

(***************************************************************************)
(* Inputs of get_active_fires: what get_all_algeria_fire_news returns      *)
(***************************************************************************)

MaxArticles == 2

\* the link of the i-th article of a list
LinkOf(i) == <<"/", "a">> \o <<CASE i = 1 -> "1" [] i = 2 -> "2" [] i = 3 -> "3" [] OTHER -> "9">>

\* articles: every bonus, an alias in the title alone, a canonical name in the
\* summary alone, no region, no published date, no title
ArticlePool ==
  << [title |-> <<"I","n","c","e","n","d","i","e"," ","S","e_acute","t","i","f">>, summary |-> <<"e_acute","v","a","c","u","a","t","i","o","n">>,
      published |-> <<"2","0","2","4","-","0","7","-","0","1"," ","1","0",":","0","0">>, source |-> <<"a","p","s">>],
     [title |-> <<"A","l","g","e","r"," ","f","u","m","e_acute","e">>, summary |-> <<>>,
      published |-> <<"R","e","c","e","n","t">>, source |-> <<"a","p","s">>],
     [title |-> <<"f","u","m","e_acute","e"," ","a","v","i","o","n">>, summary |-> <<"S","k","i","k","d","a">>, source |-> <<"a","p","s">>],
     [title |-> <<"I","n","c","e","n","d","i","e"," ","a","v","i","o","n">>, summary |-> <<>>,
      published |-> <<"2","0","2","4","-","0","7","-","0","1"," ","1","0",":","0","0">>, source |-> <<"a","p","s">>],
     [summary |-> <<"f","u","m","e_acute","e">>, published |-> <<"R","e","c","e","n","t">>],
     [title |-> <<"S","e","t","i","f"," ","S","k","i","k","d","a"," ","I","n","c","e","n","d","i","e">>, summary |-> <<>>,
      published |-> <<"2","0","2","4","-","0","7","-","0","2"," ","0","9",":","3","0">>, source |-> <<"a","p","s">>,
      ai_enhanced |-> TRUE, ai_result |-> [fire_type |-> <<"f","o","r","e","s","t">>]] >>

\* article a with its link
WithLink(a, link) ==
  [k \in DOMAIN a \cup {"link"} |-> IF k = "link" THEN link ELSE a[k]]

ArticleLists ==
  {[i \in 1..Len(q) |-> WithLink(ArticlePool[q[i]], LinkOf(i))] :
     q \in WordSeqs(Len(ArticlePool), MaxArticles)}

\* uuid.uuid4().hex[:8] and datetime.utcnow().isoformat()
Uuids == {<<"f","i","r","e","-","0","a","1","b","2","c","3","d">>, <<"f","i","r","e","-","4","e","5","f","6","a","7","b">>}

ClockReadings == {<<"2","0","2","4","-","0","7","-","0","3","T","0","8",":","0","0",":","0","0",".","0","0","0","0","0","1">>, <<"2","0","2","4","-","0","7","-","0","3","T","0","8",":","0","0",":","0","0",".","0","0","0","0","0","2">>}

InitFires ==
  /\ fn = "get_active_fires"
  /\ arg \in {Returned(q) : q \in ArticleLists} \cup {Raised("news_scraper")}
  /\ ret = NotCalled
  /\ NoScrape /\ NoSockets /\ NoDatabase

\* GET /api/fires/active; arg is the outcome of get_all_algeria_fire_news()
GetActiveFires ==
  /\ fn = "get_active_fires"
  /\ ret.kind = "not_called"
  /\ \/ /\ arg.kind = "returned"
        /\ \E ids \in TuplesOf(Uuids, Len(arg.value)),
              now \in TuplesOf(ClockReadings, Len(arg.value)) :
             ret' = Returned(get_active_fires(arg.value, ids, now))
     \/ /\ arg.kind = "raised"
        /\ ret' = Raised([status_code |-> 500])
  /\ UNCHANGED <<fn, arg>>
  /\ UNCHANGED pipeline
  /\ UNCHANGED <<registry, database>>

SpecFires == InitFires /\ [][GetActiveFires]_vars

(***************************************************************************)
(* deduplicate_articles                                                    *)
(***************************************************************************)

\* the literals 0.5 and 0.8
F_0_5 == [hi |-> 134217728, lo |-> 0]

F_0_8 == [hi |-> 214748364, lo |-> 214748368]

\* articles.sort(key=lambda x: x.get('confidence', 0.5), reverse=True):
\* descending, and stable
RECURSIVE SortByConfidence(_)
SortByConfidence(q) ==
  IF q = <<>> THEN <<>>
  ELSE LET rest == SortByConfidence(SubSeq(q, 1, Len(q) - 1))
           x    == q[Len(q)]
           k    == Cardinality({i \in 1..Len(rest) :
                      ~FloatLt(Get(rest[i], "confidence", F_0_5),
                               Get(x, "confidence", F_0_5))})
       IN  SubSeq(rest, 1, k) \o <<x>> \o SubSeq(rest, k + 1, Len(rest))

\* len(set(title.split()) & set(seen_title.split()))
CommonWords(title, seen_title) ==
  Cardinality(SeqToSet(Split(title)) \cap SeqToSet(Split(seen_title)))

\* max(len(title.split()), len(seen_title.split()))
LongestSplit(title, seen_title) ==
  IF Len(Split(title)) >= Len(Split(seen_title))
    THEN Len(Split(title)) ELSE Len(Split(seen_title))

\* len(common_words) / max(...) > 0.8, for a divisor that is not zero: the
\* quotient of two small integers exceeds the double 0.8 exactly when
\* 5 * common > 4 * longest
TooSimilar(title, seen_title) ==
  5 * CommonWords(title, seen_title) > 4 * LongestSplit(title, seen_title)

\* the loop over the sorted articles, from the i-th on.  The division raises
\* ZeroDivisionError when neither title has a word; a title without words has
\* nothing in common with any title, so no break comes before that division
RECURSIVE DedupLoop(_, _, _, _)
DedupLoop(articles, i, unique_articles, seen_titles) ==
  IF i > Len(articles) THEN Returned(unique_articles)
  ELSE LET title == Strip(Lower(articles[i].title))
       IN  IF \E seen_title \in seen_titles : LongestSplit(title, seen_title) = 0
             THEN Raised("ZeroDivisionError")
           ELSE IF \E seen_title \in seen_titles : TooSimilar(title, seen_title)
             THEN DedupLoop(articles, i + 1, unique_articles, seen_titles)
           ELSE DedupLoop(articles, i + 1, Append(unique_articles, articles[i]),
                          seen_titles \cup {title})

deduplicate_articles(articles) ==
  IF articles = <<>> THEN Returned(<<>>)
  ELSE DedupLoop(SortByConfidence(articles), 1, <<>>, {})

\* Inputs: lists of at most MaxCandidates candidates
MaxCandidates == 3

\* a six-word title; five of its six words; its own text in another case and
\* with blanks around; a title with a word twice; half of the words of the
\* first; a candidate without a confidence; a blank title
CandidatePool ==
  << [title |-> <<"F","e","u"," ","A"," ","B"," ","C"," ","D"," ","E">>, confidence |-> F_0_9],
     [title |-> <<"f","e","u"," ","a"," ","b"," ","c"," ","d"," ","x">>, confidence |-> F_0_7],
     [title |-> <<" ","f","e","u"," ","a"," ","b"," ","c"," ","d"," ","e"," ">>, confidence |-> F_0_8],
     [title |-> <<"F","e","u"," ","a"," ","O","r","a","n"," ","f","e","u"," ","e","t","e","i","n","t">>, confidence |-> F_0_8],
     [title |-> <<"f","e","u"," ","a"," ","b"," ","y"," ","z"," ","w">>, confidence |-> F_0_9],
     [title |-> <<"f","e","u"," ","a"," ","b"," ","c"," ","d"," ","x">>],
     [title |-> <<" "," ">>, confidence |-> F_0_7] >>

CandidateLists ==
  {[i \in 1..Len(q) |-> WithLink(CandidatePool[q[i]], LinkOf(i))] :
     q \in WordSeqs(Len(CandidatePool), MaxCandidates)}

InitDedup ==
  /\ fn = "deduplicate_articles"
  /\ arg \in CandidateLists
  /\ ret = NotCalled
  /\ NoScrape /\ NoSockets /\ NoDatabase

CallDedup ==
  /\ fn = "deduplicate_articles"
  /\ ret.kind = "not_called"
  /\ ret' = deduplicate_articles(arg)
  /\ UNCHANGED <<fn, arg>>
  /\ UNCHANGED pipeline
  /\ UNCHANGED <<registry, database>>

SpecDedup == InitDedup /\ [][CallDedup]_vars

(***************************************************************************)
(* Extraction: the three strategies of scrape_custom_source                *)
(***************************************************************************)

\* The values json.loads yields, tagged with their Python type.  A str holds a
\* sequence of characters, a list a sequence of values, a dict a record of values.
Null == [null |-> TRUE]

Str(s) == [str |-> s]

Num(n) == [num |-> n]

List(q) == [list |-> q]

Dict(r) == [dict |-> r]

\* the type of a value and what it holds
TypeOf(x) == CHOOSE t \in DOMAIN x : TRUE

ValueOf(x) == x[TypeOf(x)]

\* bool(x)
Truthy(x) ==
  CASE TypeOf(x) = "null" -> FALSE
    [] TypeOf(x) = "str"  -> ValueOf(x) # <<>>
    [] TypeOf(x) = "num"  -> ValueOf(x) # 0
    [] TypeOf(x) = "list" -> ValueOf(x) # <<>>
    [] TypeOf(x) = "dict" -> DOMAIN ValueOf(x) # {}

\* data.get(key, default) of a dict
DictGet(data, key, default) ==
  IF key \in DOMAIN ValueOf(data) THEN ValueOf(data)[key] ELSE default

\* the first position (1-based) of sub in s at or after i, 0 if there is none
FindFrom(s, sub, i) ==
  LET hits == {k \in i..(Len(s) - Len(sub) + 1) : OccursAt(s, sub, k - 1)}
  IN  IF hits = {} THEN 0 ELSE CHOOSE k \in hits : \A j \in hits : k <= j

\* urljoin(base, url) for a base without query or fragment and a url that is
\* empty, absolute, rooted at "/", or a relative path without dot segments
urljoin(base, url) ==
  LET scheme_end == FindFrom(base, <<":","/","/">>, 1)
      path_start == FindFrom(base, <<"/">>, scheme_end + 3)
      origin     == IF path_start = 0 THEN base ELSE SubSeq(base, 1, path_start - 1)
      slashes    == {k \in 1..Len(base) : k >= path_start /\ path_start > 0 /\ base[k] = "/"}
      directory  == IF slashes = {} THEN origin \o <<"/">>
                    ELSE SubSeq(base, 1, CHOOSE k \in slashes : \A j \in slashes : j <= k)
  IN  IF url = <<>> THEN base
      ELSE IF FindFrom(url, <<":","/","/">>, 1) > 0 THEN url
      ELSE IF url[1] = "/" THEN origin \o url
      ELSE directory \o url

\* extract_link(node, base_url).  A node is [text, href, parent]; href is Null or
\* a Str; parent is None or [tag, href, children], children the (tag, href) of
\* the nodes parent.iter() yields
extract_link(node, base_url) ==
  LET parent == node.parent
      linked == IF parent = None THEN {}
                ELSE {k \in 1..Len(parent.children) :
                        parent.children[k].tag = "a" /\ Truthy(parent.children[k].href)}
      link   == IF Truthy(node.href) THEN node.href
                ELSE IF parent # None /\ parent.tag = "a" THEN parent.href
                ELSE IF linked # {}
                  THEN parent.children[CHOOSE k \in linked : \A j \in linked : k <= j].href
                ELSE Null
  IN  IF Truthy(link) THEN urljoin(base_url, ValueOf(link)) ELSE base_url

\* the value of a decimal digit, and of a two-digit field
DigitValue(c) ==
  CASE c = "0" -> 0 [] c = "1" -> 1 [] c = "2" -> 2 [] c = "3" -> 3 [] c = "4" -> 4
    [] c = "5" -> 5 [] c = "6" -> 6 [] c = "7" -> 7 [] c = "8" -> 8 [] c = "9" -> 9

AreDigits(s, i, j) == j <= Len(s) /\ \A k \in i..j : s[k] \in Digits

TwoDigits(s, i) == 10 * DigitValue(s[i]) + DigitValue(s[i + 1])

DaysInMonth(year, month) ==
  IF month = 2
    THEN (IF year % 4 = 0 /\ (year % 100 # 0 \/ year % 400 = 0) THEN 29 ELSE 28)
  ELSE IF month \in {4, 6, 9, 11} THEN 30 ELSE 31

\* datetime.fromisoformat(s) accepts s: YYYY-MM-DD, then optionally any one
\* character and HH:MM or HH:MM:SS, then optionally an offset +HH:MM or -HH:MM
\* (the forms every Python 3 accepts; fractions of a second are not modelled)
IsIsoFormat(s) ==
  LET year  == 1000 * DigitValue(s[1]) + 100 * DigitValue(s[2]) + TwoDigits(s, 3)
      dateOk == /\ Len(s) >= 10
                /\ AreDigits(s, 1, 4) /\ s[5] = "-" /\ AreDigits(s, 6, 7)
                /\ s[8] = "-" /\ AreDigits(s, 9, 10)
                /\ year >= 1
                /\ TwoDigits(s, 6) \in 1..12
                /\ TwoDigits(s, 9) \in 1..DaysInMonth(year, TwoDigits(s, 6))
      HourMinute(i) == /\ AreDigits(s, i, i + 1) /\ s[i + 2] = ":" /\ AreDigits(s, i + 3, i + 4)
                       /\ TwoDigits(s, i) < 24 /\ TwoDigits(s, i + 3) < 60
      Seconds(i)    == s[i] = ":" /\ AreDigits(s, i + 1, i + 2) /\ TwoDigits(s, i + 1) < 60
      Offset(i)     == s[i] \in {"+", "-"} /\ Len(s) = i + 5 /\ HourMinute(i + 1)
  IN  /\ dateOk
      /\ \/ Len(s) = 10
         \/ /\ Len(s) >= 16 /\ HourMinute(12)
            /\ \/ Len(s) = 16
               \/ Offset(17)
               \/ /\ Len(s) >= 19 /\ Seconds(17)
                  /\ (Len(s) = 19 \/ Offset(20))

\* dt.strftime('%Y-%m-%d %H:%M') of an accepted s
StrfTime(s) ==
  SubSeq(s, 1, 10) \o <<" ">> \o (IF Len(s) = 10 THEN <<"0","0",":","0","0">> ELSE SubSeq(s, 12, 16))

\* s.replace('Z', '+00:00')
RECURSIVE ReplaceZ(_)
ReplaceZ(s) ==
  IF s = <<>> THEN <<>>
  ELSE (IF Head(s) = "Z" THEN <<"+","0","0",":","0","0">> ELSE <<Head(s)>>) \o ReplaceZ(Tail(s))

\* extract_date(data): the first date field with a truthy value, formatted when
\* it parses and as it is when it does not (a value that is no str is returned
\* as it is too: the AttributeError of .replace is caught)
date_fields == <<"datePublished", "dateModified", "dateCreated">>

extract_date(data) ==
  LET present == {k \in 1..Len(date_fields) : Truthy(DictGet(data, date_fields[k], Null))}
      value   == ValueOf(data)[date_fields[CHOOSE k \in present : \A j \in present : k <= j]]
  IN  IF present = {} THEN <<"R","e","c","e","n","t">>
      ELSE IF TypeOf(value) # "str" THEN value
      ELSE IF IsIsoFormat(ReplaceZ(ValueOf(value))) THEN StrfTime(ReplaceZ(ValueOf(value)))
      ELSE ValueOf(value)

\* create_article_object(title, link, source_name): None for a title of fewer
\* than 10 characters
create_article_object(title, link, source_name) ==
  IF title = <<>> \/ Len(title) < 10 THEN None
  ELSE [title |-> Strip(title), link |-> link,
        summary |-> <<"F","i","r","e","-","r","e","l","a","t","e","d"," ","n","e","w","s"," ","f","r","o","m"," ">> \o source_name,
        published |-> <<"R","e","c","e","n","t">>, source |-> source_name,
        confidence |-> F_0_8, ai_enhanced |-> FALSE, content |-> title]

\* node.text(strip=True) of a node with one run of text
NodeText(node) == Strip(node.text)

\* Strategy 1: the candidate of a node the selectors found, <<>> if it has none
SelectorCandidate(node, source_config) ==
  LET text == NodeText(node)
  IN  IF text # <<>> /\ Len(text) > 20
        THEN LET article == create_article_object(
                              text, extract_link(node, source_config.url), source_config.name)
             IN  IF article # None /\ is_fire_related_advanced(text)
                   THEN <<article>> ELSE <<>>
      ELSE <<>>

\* the loops over the selectors and their nodes; nodes holds the nodes in the
\* order the loops visit them
RECURSIVE SelectorCandidates(_, _)
SelectorCandidates(nodes, source_config) ==
  IF nodes = <<>> THEN <<>>
  ELSE SelectorCandidate(Head(nodes), source_config)
         \o SelectorCandidates(Tail(nodes), source_config)

\* json.loads raised JSONDecodeError
JSONDecodeError == [JSONDecodeError |-> TRUE]

\* the outcomes of one pass of the loop over the scripts
Skip == [kind |-> "skip"]

AppendArticle(article) == [kind |-> "append", article |-> article]

\* Strategy 2, the body of the loop for one script, parsed being what
\* json.loads(script.text()) gave.  In the order of the code: data.get raises
\* AttributeError on a value that is no dict; the slice [:200] raises
\* TypeError on a description that is neither str nor list; the relevance test
\* raises on a truthy title that is a number (len) or a list or dict of ten or
\* more entries (lower); urljoin raises TypeError on a truthy url that is no
\* str; title + ' ' + summary raises TypeError on a summary that is a list
JsonLdBlock(parsed, source_config) ==
  IF parsed = JSONDecodeError THEN Skip
  ELSE
    LET data == IF TypeOf(parsed) = "list"
                  THEN (IF ValueOf(parsed) # <<>> THEN ValueOf(parsed)[1] ELSE Dict(<<>>))
                  ELSE parsed
    IN  IF TypeOf(data) # "dict" THEN Raised("AttributeError")
        ELSE IF ~( /\ TypeOf(DictGet(data, "@type", Null)) = "str"
                   /\ ValueOf(DictGet(data, "@type", Null)) \in {<<"N","e","w","s","A","r","t","i","c","l","e">>, <<"A","r","t","i","c","l","e">>} )
          THEN Skip
        ELSE
          LET headline == DictGet(data, "headline", Null)
              title    == IF Truthy(headline) THEN headline
                          ELSE DictGet(data, "name", Str(<<>>))
              url      == DictGet(data, "url", Str(source_config.url))
              description == DictGet(data, "description", Str(<<>>))
          IN  IF TypeOf(description) \notin {"str", "list"} THEN Raised("TypeError")
              ELSE IF ~Truthy(title) THEN Skip
              ELSE IF TypeOf(title) = "num" THEN Raised("TypeError")
              ELSE IF TypeOf(title) = "list"
                THEN (IF Len(ValueOf(title)) < 10 THEN Skip ELSE Raised("AttributeError"))
              ELSE IF TypeOf(title) = "dict"
                THEN (IF Cardinality(DOMAIN ValueOf(title)) < 10 THEN Skip
                      ELSE Raised("AttributeError"))
              ELSE IF ~is_fire_related_advanced(ValueOf(title)) THEN Skip
              ELSE IF Truthy(url) /\ TypeOf(url) # "str" THEN Raised("TypeError")
              ELSE IF TypeOf(description) = "list" THEN Raised("TypeError")
              ELSE AppendArticle(
                     [title |-> ValueOf(title),
                      link |-> urljoin(source_config.url,
                                       IF Truthy(url) THEN ValueOf(url) ELSE <<>>),
                      summary |-> Prefix(ValueOf(description), 200),
                      content |-> ValueOf(title) \o <<" ">> \o Prefix(ValueOf(description), 200),
                      published |-> extract_date(data),
                      source |-> source_config.name,
                      confidence |-> F_0_9,
                      ai_enhanced |-> FALSE])

\* the loop over the scripts: an exception other than JSONDecodeError leaves
\* the loop, and the articles appended so far are returned
RECURSIVE JsonLdLoop(_, _, _)
JsonLdLoop(scripts, source_config, articles) ==
  IF scripts = <<>> THEN articles
  ELSE TheOnly({
         CASE r.kind = "raised" -> articles
           [] r.kind = "skip"   -> JsonLdLoop(Tail(scripts), source_config, articles)
           [] r.kind = "append" -> JsonLdLoop(Tail(scripts), source_config,
                                              articles \o <<r.article>>)
         : r \in {JsonLdBlock(Head(scripts), source_config)}})

\* extract_json_ld_articles, scripts being what json.loads gives for the
\* script[type="application/ld+json"] elements of the document, in order
extract_json_ld_articles(scripts, source_config) ==
  JsonLdLoop(scripts, source_config, <<>>)

\* Strategy 3, the body of the loop for one container: [title_node, link_node,
\* summary_node], each None or a node
ContainerCandidate(container, source_config) ==
  IF container.title_node = None THEN <<>>
  ELSE
    LET title == NodeText(container.title_node)
    IN  IF title # <<>> /\ Len(title) > 15 /\ is_fire_related_advanced(title)
          THEN LET link == IF container.link_node # None
                             THEN extract_link(container.link_node, source_config.url)
                             ELSE source_config.url
                   summary == IF container.summary_node # None
                                THEN Prefix(NodeText(container.summary_node), 200)
                                ELSE <<>>
               IN  << [title |-> title,
                       link |-> link,
                       summary |-> summary,
                       content |-> title \o <<" ">> \o summary,
                       published |-> <<"R","e","c","e","n","t">>,
                       source |-> source_config.name,
                       confidence |-> F_0_7,
                       ai_enhanced |-> FALSE] >>
        ELSE <<>>

\* auto_detect_articles, containers being the containers in the order the
\* loops over article_selectors visit them
RECURSIVE auto_detect_articles(_, _)
auto_detect_articles(containers, source_config) ==
  IF containers = <<>> THEN <<>>
  ELSE ContainerCandidate(Head(containers), source_config)
         \o auto_detect_articles(Tail(containers), source_config)

\* the candidates of a fetched document [nodes, scripts, containers], before
\* deduplication
ExtractCandidates(document, source_config) ==
  SelectorCandidates(document.nodes, source_config)
    \o extract_json_ld_articles(document.scripts, source_config)
    \o auto_detect_articles(document.containers, source_config)

(***************************************************************************)
(* Inputs of the extraction strategies                                     *)
(***************************************************************************)

\* the most nodes, scripts or containers of a document
MaxBlocks == 2

\* the source scraped
SourceConfig == [id |-> 1, name |-> <<"a","p","s">>, url |-> <<"h","t","t","p","s",":","/","/","a","p","s",".","d","z","/","f","e","u","x","/","i","n","d","e","x",".","h","t","m","l">>]

\* titles of 8, 13, 17 and 25 characters that the relevance test accepts but
\* for its length check, a title of 8 characters with blanks around it, and a
\* long title that is not about a fire
ShortTitle == <<"I","n","c","e","n","d","i","e">>

TitlePool ==
  << ShortTitle, <<"I","n","c","e","n","d","i","e"," ","O","r","a","n">>, <<"I","n","c","e","n","d","i","e"," ","a"," ","S","k","i","k","d","a">>,
     <<"I","n","c","e","n","d","i","e"," ","d","e"," ","f","o","r","e","t"," ","a"," ","B","l","i","d","a">>, <<" "," ","I","n","c","e","n","d","i","e"," "," ">>,
     <<"F","o","o","t","b","a","l","l",":"," ","m","a","t","c","h"," ","n","u","l"," ","a"," ","A","l","g","e","r">> >>

TextNode(text) == [text |-> text, href |-> Null, parent |-> None]

NodePool ==
  [i \in 1..Len(TitlePool) |-> TextNode(TitlePool[i])]
  \o << [text |-> TitlePool[4], href |-> Str(<<"/","n","/","1">>), parent |-> None],
        [text |-> <<" "," "," ","I","n","c","e","n","d","i","e"," ","d","e"," ","f","o","r","e","t"," ","a"," ","B","l","i","d","a"," ">>, href |-> Null,
         parent |-> [tag |-> "a", href |-> Str(<<"h","t","t","p","s",":","/","/","a","p","s",".","d","z","/","n","/","2">>), children |-> <<>>]],
        [text |-> TitlePool[4], href |-> Str(<<>>),
         parent |-> [tag |-> "div", href |-> Null,
                     children |-> << [tag |-> "p", href |-> Null],
                                     [tag |-> "a", href |-> Str(<<"n","3",".","h","t","m","l">>)] >>]] >>

NewsArticle(headline) ==
  Dict(("@type" :> Str(<<"N","e","w","s","A","r","t","i","c","l","e">>)) @@ ("headline" :> headline))

ScriptPool ==
  [i \in 1..Len(TitlePool) |-> NewsArticle(Str(TitlePool[i]))]
  \o << JSONDecodeError,
        Dict(("@type" :> Str(<<"A","r","t","i","c","l","e">>)) @@ ("name" :> Str(TitlePool[4]))
             @@ ("url" :> Str(<<"/","n","/","4">>))
             @@ ("description" :> Str(<<"L","e","s"," ","f","l","a","m","m","e","s"," ","p","r","o","g","r","e","s","s","e","n","t"," ","v","e","r","s"," ","l","e","s"," ","v","i","l","l","a","g","e","s","."," ","L","e","s"," ","f","l","a","m","m","e","s"," ","p","r","o","g","r","e","s","s","e","n","t"," ","v","e","r","s"," ","l","e","s"," ","v","i","l","l","a","g","e","s","."," ","L","e","s"," ","f","l","a","m","m","e","s"," ","p","r","o","g","r","e","s","s","e","n","t"," ","v","e","r","s"," ","l","e","s"," ","v","i","l","l","a","g","e","s","."," ","L","e","s"," ","f","l","a","m","m","e","s"," ","p","r","o","g","r","e","s","s","e","n","t"," ","v","e","r","s"," ","l","e","s"," ","v","i","l","l","a","g","e","s","."," ","L","e","s"," ","f","l","a","m","m","e","s"," ","p","r","o","g","r","e","s","s","e","n","t"," ","v","e","r","s"," ","l","e","s"," ","v","i","l","l","a","g","e","s",".">>))
             @@ ("datePublished" :> Str(<<"2","0","2","4","-","0","7","-","0","1","T","1","0",":","3","0",":","0","0","Z">>))),
        Dict(("@type" :> Str(<<"W","e","b","P","a","g","e">>)) @@ ("headline" :> Str(TitlePool[4]))),
        List(<<NewsArticle(Str(TitlePool[3]))>>),
        List(<<>>),
        List(<<Str(TitlePool[4])>>),
        Str(TitlePool[4]),
        Null,
        Dict(("@type" :> Str(<<"N","e","w","s","A","r","t","i","c","l","e">>)) @@ ("headline" :> Str(TitlePool[4]))
             @@ ("description" :> Null)),
        Dict(("@type" :> Str(<<"N","e","w","s","A","r","t","i","c","l","e">>)) @@ ("headline" :> Str(TitlePool[4]))
             @@ ("description" :> List(<<Str(TitlePool[4])>>))),
        Dict(("@type" :> Str(<<"N","e","w","s","A","r","t","i","c","l","e">>)) @@ ("headline" :> Str(TitlePool[4]))
             @@ ("url" :> Num(7))),
        Dict(("@type" :> Str(<<"N","e","w","s","A","r","t","i","c","l","e">>)) @@ ("headline" :> Str(TitlePool[4]))
             @@ ("dateModified" :> Str(<<"h","i","e","r">>))),
        NewsArticle(Num(2024)),
        NewsArticle(List(<<Str(TitlePool[4])>>)),
        Dict(("@type" :> List(<<Str(<<"N","e","w","s","A","r","t","i","c","l","e">>)>>)) @@ ("headline" :> Str(TitlePool[4]))) >>

ContainerPool ==
  << [title_node |-> None, link_node |-> None, summary_node |-> None],
     [title_node |-> TextNode(TitlePool[1]), link_node |-> None, summary_node |-> None],
     [title_node |-> TextNode(TitlePool[2]), link_node |-> None, summary_node |-> None],
     [title_node |-> TextNode(TitlePool[3]), link_node |-> None, summary_node |-> None],
     [title_node |-> TextNode(TitlePool[4]),
      link_node |-> [text |-> <<"L","i","r","e">>, href |-> Str(<<"/","n","/","5">>), parent |-> None],
      summary_node |-> TextNode(<<" ","L","e","s"," ","f","l","a","m","m","e","s"," ","p","r","o","g","r","e","s","s","e","n","t"," ","v","e","r","s"," ","l","e","s"," ","v","i","l","l","a","g","e","s","."," ","L","e","s"," ","f","l","a","m","m","e","s"," ","p","r","o","g","r","e","s","s","e","n","t"," ","v","e","r","s"," ","l","e","s"," ","v","i","l","l","a","g","e","s","."," ","L","e","s"," ","f","l","a","m","m","e","s"," ","p","r","o","g","r","e","s","s","e","n","t"," ","v","e","r","s"," ","l","e","s"," ","v","i","l","l","a","g","e","s","."," ","L","e","s"," ","f","l","a","m","m","e","s"," ","p","r","o","g","r","e","s","s","e","n","t"," ","v","e","r","s"," ","l","e","s"," ","v","i","l","l","a","g","e","s","."," ","L","e","s"," ","f","l","a","m","m","e","s"," ","p","r","o","g","r","e","s","s","e","n","t"," ","v","e","r","s"," ","l","e","s"," ","v","i","l","l","a","g","e","s","."," ">>)],
     [title_node |-> TextNode(TitlePool[6]), link_node |-> None, summary_node |-> None] >>

\* the sequences of at most MaxBlocks members of a pool
BlocksOf(pool) ==
  {[i \in 1..Len(q) |-> pool[q[i]]] : q \in WordSeqs(Len(pool), MaxBlocks)}

InitExtract ==
  /\ \/ fn = "selector_scan" /\ arg \in BlocksOf(NodePool)
     \/ fn = "extract_json_ld_articles" /\ arg \in BlocksOf(ScriptPool)
     \/ fn = "auto_detect_articles" /\ arg \in BlocksOf(ContainerPool)
  /\ ret = NotCalled
  /\ NoScrape /\ NoSockets /\ NoDatabase

\* Strategy 1 of scrape_custom_source
CallSelectorScan ==
  /\ fn = "selector_scan"
  /\ ret.kind = "not_called"
  /\ ret' = Returned(SelectorCandidates(arg, SourceConfig))
  /\ UNCHANGED <<fn, arg>>
  /\ UNCHANGED pipeline
  /\ UNCHANGED <<registry, database>>

CallJsonLd ==
  /\ fn = "extract_json_ld_articles"
  /\ ret.kind = "not_called"
  /\ ret' = Returned(extract_json_ld_articles(arg, SourceConfig))
  /\ UNCHANGED <<fn, arg>>
  /\ UNCHANGED pipeline
  /\ UNCHANGED <<registry, database>>

CallAutoDetect ==
  /\ fn = "auto_detect_articles"
  /\ ret.kind = "not_called"
  /\ ret' = Returned(auto_detect_articles(arg, SourceConfig))
  /\ UNCHANGED <<fn, arg>>
  /\ UNCHANGED pipeline
  /\ UNCHANGED <<registry, database>>

NextExtract == CallSelectorScan \/ CallJsonLd \/ CallAutoDetect

SpecExtract == InitExtract /\ [][NextExtract]_vars

(***************************************************************************)
(* scrape_custom_source and manual_scrape                                  *)
(*                                                                         *)
(* manual_scrape runs from one await to the next in one step: the query of *)
(* the sources; for each source the fetch of its page, with everything up  *)
(* to the call of analyze_batch or, without that call, to the append of    *)
(* the source's ScrapeResult; the return of analyze_batch with the rest of *)
(* the source's pass through the loop; the response.  duration_seconds and *)
(* ai_confidence_avg, which nothing reads, are not modelled.               *)
(***************************************************************************)

\* the literal 0.3
F_0_3 == [hi |-> 80530636, lo |-> 214748364]

\* a Python list of dicts, as a value
ListOf(dicts) == List([i \in 1..Len(dicts) |-> Dict(dicts[i])])

\* the ways the fetch of lines 77-83 fails: a status other than 200,
\* asyncio.TimeoutError, aiohttp.ClientError
FetchFailures == {"http_status", "timeout", "connection_error"}

\* lines 86-111 on a fetched document: the candidates of the three
\* strategies, deduplicated
Candidates(document, source_config) ==
  deduplicate_articles(ExtractCandidates(document, source_config))

\* analyze_batch(articles), of app.libs.gemini_ai_service: an enriched copy of
\* each candidate, with ai_enhanced set and a confidence of the service or none
AIConfidences == {F_0_2, F_0_5, F_0_9, None}

\* the most candidates of a batch whose confidences are drawn one by one
MaxEnumerated == 3

Enriched(article, choice) ==
  IF choice = None
    THEN [k \in (DOMAIN article \ {"confidence"}) \cup {"ai_enhanced"} |->
            IF k = "ai_enhanced" THEN TRUE ELSE article[k]]
    ELSE [k \in DOMAIN article \cup {"ai_enhanced", "confidence"} |->
            CASE k = "ai_enhanced" -> TRUE
              [] k = "confidence"  -> choice
              [] OTHER             -> article[k]]

\* the responses to a batch: every choice of confidences for a batch of at most
\* MaxEnumerated candidates; for a longer batch one confidence for all, or 0.5
\* for the first candidate and 0.9 for the others
Enrichments(candidates) ==
  LET n == Len(candidates)
      profiles == IF n <= MaxEnumerated THEN TuplesOf(AIConfidences, n)
                  ELSE {[i \in 1..n |-> c] : c \in AIConfidences}
                         \cup {[i \in 1..n |-> IF i = 1 THEN F_0_5 ELSE F_0_9]}
  IN  {ListOf([i \in 1..n |-> Enriched(candidates[i], choices[i])]) :
         choices \in profiles}

\* responses that are no list of dicts: None, a str, a dict, a list of strs
MalformedResponses ==
  {Null, Str(<<"q","u","o","t","a"," ","e","x","c","e","e","d","e","d">>), Dict("error" :> Str(<<"q","u","o","t","a">>)),
   List(<<Str(<<"I","n","c","e","n","d","i","e"," ","d","e"," ","f","o","r","e","t"," ","a"," ","B","l","i","d","a">>)>>)}

\* the ways the call of analyze_batch ends
AnalyzeOutcomes(candidates) ==
  {Raised("Exception"), Raised("TimeoutError")}
    \cup {Returned(v) : v \in Enrichments(candidates) \cup MalformedResponses}

\* the response of analyze_batch taken as it is, without the filter of line 121
AfterAnalyze_no_filter(candidates, outcome) ==
  IF outcome.kind = "raised" THEN ListOf(candidates) ELSE outcome.value

\* lines 118-124: articles after the call.  An exception of the call leaves
\* articles as it was.  A returned value is assigned to articles, then
\* filtered; the filter raises on a value that cannot be iterated or has an
\* item without .get, the exception is caught, and articles stays the value
AfterAnalyze(candidates, outcome) ==
  IF outcome.kind = "raised" THEN ListOf(candidates)
  ELSE
    LET value == outcome.value
    IN  CASE TypeOf(value) = "list" ->
               IF \A i \in 1..Len(value.list) : TypeOf(value.list[i]) = "dict"
                 THEN List(SelectSeq(value.list,
                        LAMBDA a : FloatLe(F_0_3, Get(a.dict, "confidence", F_0_0))))
                 ELSE value
          [] TypeOf(value) = "str" ->
               IF value.str = <<>> THEN List(<<>>) ELSE value
          [] TypeOf(value) = "dict" ->
               IF DOMAIN value.dict = {} THEN List(<<>>) ELSE value
          [] OTHER -> value

\* line 128, return articles[:10], and lines 133-135: a value that cannot be
\* sliced raises TypeError (KeyError for a dict), and [] is returned
ReturnTopTen(value) ==
  CASE TypeOf(value) = "list" -> List(Prefix(value.list, 10))
    [] TypeOf(value) = "str"  -> Str(Prefix(value.str, 10))
    [] OTHER                  -> List(<<>>)

\* len(articles) and the items of articles, in manual_scrape
ItemsOf(value) ==
  IF TypeOf(value) = "list" THEN value.list
  ELSE [i \in 1..Len(value.str) |-> Str(<<value.str[i]>>)]

\* type(x).__name__
TypeName(x) ==
  CASE TypeOf(x) = "null" -> <<"N","o","n","e","T","y","p","e">>
    [] TypeOf(x) = "num"  -> <<"i","n","t">>
    [] TypeOf(x) = "str"  -> <<"s","t","r">>
    [] TypeOf(x) = "list" -> <<"l","i","s","t">>

\* the sources of the model: row i of the table custom_sources
DigitChar(i) ==
  CASE i = 0 -> "0" [] i = 1 -> "1" [] i = 2 -> "2" [] i = 3 -> "3" [] i = 4 -> "4"
    [] i = 5 -> "5" [] i = 6 -> "6" [] i = 7 -> "7" [] i = 8 -> "8" [] i = 9 -> "9"

SourceRow(i, user_id, is_active) ==
  [id |-> i, name |-> <<"s","r","c">> \o <<DigitChar(i)>>,
   url |-> <<"h","t","t","p","s",":","/","/","s","r","c">> \o <<DigitChar(i)>> \o <<".","d","z","/","f","e","u","x","/">>,
   user_id |-> user_id, is_active |-> is_active]

\* lines 523-533: the rows of the query, in the order of the table
SelectedSources(request) ==
  SelectSeq(request.custom_sources,
            LAMBDA row : /\ row.user_id = request.user
                         /\ row.is_active
                         /\ (request.source_ids # {} => row.id \in request.source_ids))

\* lines 572-577: the source_config manual_scrape passes
ConfigOf(row) == [id |-> row.id, name |-> row.name, url |-> row.url]

\* lines 590-599 and 605-613: the two kinds of ScrapeResult
Success(source_id, source_name, articles_found, ai_enhanced) ==
  [source_id |-> source_id, source_name |-> source_name,
   articles_found |-> articles_found, status |-> "success", error |-> Null,
   ai_enhanced |-> ai_enhanced]

Failure(source_id, source_name, error) ==
  [source_id |-> source_id, source_name |-> source_name,
   articles_found |-> 0, status |-> "error", error |-> Str(error),
   ai_enhanced |-> FALSE]

\* lines 582-613: what manual_scrape makes of the value scrape_custom_source
\* returned.  With use_ai and a truthy value it reads .get of every item, which
\* raises AttributeError on an item that is no dict
BadItems(value) ==
  {i \in 1..Len(ItemsOf(value)) : TypeOf(ItemsOf(value)[i]) # "dict"}

ReadsItems(value) == use_ai /\ Truthy(value)

ResultOf(row, value) ==
  IF ReadsItems(value) /\ BadItems(value) # {}
    THEN Failure(row.id, row.name,
                 <<"'">> \o TypeName(ItemsOf(value)[CHOOSE i \in BadItems(value) :
                                                      \A j \in BadItems(value) : i <= j])
                   \o <<"'"," ","o","b","j","e","c","t"," ","h","a","s"," ","n","o"," ","a","t","t","r","i","b","u","t","e"," ","'","g","e","t","'">>)
    ELSE Success(row.id, row.name, Len(ItemsOf(value)), use_ai)

HighConfidence(value) ==
  IF ReadsItems(value) /\ BadItems(value) = {}
    THEN Cardinality({i \in 1..Len(value.list) :
                        FloatLe(F_0_7, Get(value.list[i].dict, "confidence", F_0_0))})
    ELSE 0

\* the loop of manual_scrape with the success entry appended before the items
\* are read: a source whose items cannot be read gets that entry and the error
\* entry
FinishSource_with_partial_entry(value, met) ==
  LET row    == sources[current]
      result == ResultOf(row, value)
  IN  /\ results' = IF result.status = "error"
                       THEN results \o <<Success(row.id, row.name, 0, use_ai), result>>
                       ELSE Append(results, result)
      /\ total_articles' = total_articles + result.articles_found
      /\ high_confidence_articles' = high_confidence_articles + HighConfidence(value)
      /\ scraped' = Append(scraped,
                           [k \in DOMAIN met \cup {"source_id", "returned"} |->
                              CASE k = "source_id" -> row.id
                                [] k = "returned"  -> value
                                [] OTHER           -> met[k]])
      /\ batch' = <<>>
      /\ current' = current + 1
      /\ pc' = IF current < Len(sources) THEN "fetch" ELSE "return"
      /\ UNCHANGED <<fn, arg, ret, sources, use_ai>>

\* the loop of manual_scrape scraping a source once more after a failed fetch
\* or a failed enrichment call
FinishSource_with_retry(value, met) ==
  LET row    == sources[current]
      result == ResultOf(row, value)
      failed == met.fetch \in FetchFailures \/ met.analyze.kind = "raised"
      again  == failed /\ (scraped = <<>> \/ scraped[Len(scraped)].source_id # row.id)
  IN  /\ results' = IF again THEN results ELSE Append(results, result)
      /\ total_articles' = total_articles + (IF again THEN 0 ELSE result.articles_found)
      /\ high_confidence_articles' =
           high_confidence_articles + (IF again THEN 0 ELSE HighConfidence(value))
      /\ scraped' = Append(scraped,
                           [k \in DOMAIN met \cup {"source_id", "returned"} |->
                              CASE k = "source_id" -> row.id
                                [] k = "returned"  -> value
                                [] OTHER           -> met[k]])
      /\ batch' = <<>>
      /\ current' = IF again THEN current ELSE current + 1
      /\ pc' = IF again \/ current < Len(sources) THEN "fetch" ELSE "return"
      /\ UNCHANGED <<fn, arg, ret, sources, use_ai>>

\* scrape_custom_source has returned value for the current source: the rest of
\* the pass through the loop of manual_scrape.  met is what the call met
FinishSource(value, met) ==
  LET row    == sources[current]
      result == ResultOf(row, value)
  IN  /\ results' = Append(results, result)
      /\ total_articles' = total_articles + result.articles_found
      /\ high_confidence_articles' = high_confidence_articles + HighConfidence(value)
      /\ scraped' = Append(scraped,
                           [k \in DOMAIN met \cup {"source_id", "returned"} |->
                              CASE k = "source_id" -> row.id
                                [] k = "returned"  -> value
                                [] OTHER           -> met[k]])
      /\ batch' = <<>>
      /\ current' = current + 1
      /\ pc' = IF current < Len(sources) THEN "fetch" ELSE "return"
      /\ UNCHANGED <<fn, arg, ret, sources, use_ai>>

\* what a call of scrape_custom_source met: the outcome of the fetch, the
\* document fetched (its place in DocumentPool, 0 for none), the deduplicated
\* candidates, whether is_available was asked and its answer, and how
\* analyze_batch ended
Met(fetch, document, candidates, asked, available, analyze) ==
  [fetch |-> fetch, document |-> document, candidates |-> candidates,
   asked |-> asked, available |-> available, analyze |-> analyze]

\* ManualScrapeResponse
Response(all_results, total, ai_analysis_used, high) ==
  [total_articles |-> total, results |-> all_results,
   ai_analysis_used |-> ai_analysis_used, high_confidence_articles |-> high]

\* Inputs: the most sources of the user in the table
MaxSources == 2

\* the pages a source serves: nothing about a fire; a selector node and a
\* structured-data article; a node, a structured-data article and a container
\* of one title; a selector node and eleven structured-data articles, twelve
\* candidates
DocumentPool ==
  << [nodes |-> <<NodePool[6]>>, scripts |-> <<ScriptPool[9]>>, containers |-> <<>>],
     [nodes |-> <<NodePool[7]>>,
      scripts |-> <<NewsArticle(Str(<<"I","n","c","e","n","d","i","e"," ","a_grave"," ","S","e_acute","t","i","f"," ",":"," ","e_acute","v","a","c","u","a","t","i","o","n"," ","e","n"," ","c","o","u","r","s">>))>>,
      containers |-> <<>>],
     [nodes |-> <<NodePool[4]>>, scripts |-> <<NewsArticle(Str(TitlePool[4]))>>,
      containers |-> <<ContainerPool[5]>>],
     [nodes |-> <<NodePool[7]>>,
      scripts |->
        LET headlines == << <<"I","n","c","e","n","d","i","e"," ","a"," ","O","r","a","n">>, <<"I","n","c","e","n","d","i","e"," ","a"," ","J","i","j","e","l">>, <<"I","n","c","e","n","d","i","e"," ","a"," ","B","a","t","n","a">>,
                            <<"I","n","c","e","n","d","i","e"," ","a"," ","A","n","n","a","b","a">>, <<"I","n","c","e","n","d","i","e"," ","a"," ","T","i","p","a","z","a">>, <<"I","n","c","e","n","d","i","e"," ","a"," ","B","o","u","i","r","a">>,
                            <<"I","n","c","e","n","d","i","e"," ","a"," ","M","e","d","e","a">>, <<"I","n","c","e","n","d","i","e"," ","a"," ","S","e","t","i","f">>, <<"I","n","c","e","n","d","i","e"," ","a"," ","A","l","g","e","r">>,
                            <<"I","n","c","e","n","d","i","e"," ","a"," ","G","u","e","l","m","a">>, <<"I","n","c","e","n","d","i","e"," ","a"," ","M","i","l","a">> >>
        IN  [i \in 1..Len(headlines) |-> NewsArticle(Str(headlines[i]))],
      containers |-> <<>>] >>

\* the table: the first n sources of the user, a source of theirs that is not
\* active and a source of another user
SourceTables ==
  {[i \in 1..n |-> SourceRow(i, "u1", TRUE)]
     \o <<SourceRow(8, "u1", FALSE), SourceRow(9, "u2", TRUE)>> : n \in 0..MaxSources}

\* what get_all_algeria_fire_news gives manual_scrape when there is no source
DefaultOutcomes ==
  {Returned(<<>>), Returned(SubSeq(ArticlePool, 1, 2)), Raised(<<"n","e","w","s","_","s","c","r","a","p","e","r">>)}

InitScrape ==
  /\ fn = "manual_scrape"
  /\ arg \in [source_ids : {{}, {1, 8, 9}, {2}}, user : {"u1"},
              custom_sources : SourceTables]
  /\ ret = NotCalled
  /\ pc = "start" /\ sources = <<>> /\ current = 0 /\ use_ai = FALSE
  /\ batch = <<>> /\ results = <<>> /\ total_articles = 0
  /\ high_confidence_articles = 0 /\ scraped = <<>>
  /\ NoSockets /\ NoDatabase

\* lines 518-534 and, with no source, 536-560 and 616-631: the connection, the
\* query, the default scrape
ManualScrapeStart ==
  /\ pc = "start"
  /\ UNCHANGED <<registry, database>>
  /\ \/ \* get_db_connection raises: conn is unbound in the finally clause
        /\ ret' = Raised([exception |-> "UnboundLocalError"])
        /\ pc' = "done"
        /\ UNCHANGED <<fn, arg, sources, current, use_ai, batch, results,
                       total_articles, high_confidence_articles, scraped>>
     \/ \* conn.fetch raises
        /\ ret' = Raised([status_code |-> 500])
        /\ pc' = "done"
        /\ UNCHANGED <<fn, arg, sources, current, use_ai, batch, results,
                       total_articles, high_confidence_articles, scraped>>
     \/ \* no source: the default scrape, and the response
        /\ SelectedSources(arg) = <<>>
        /\ \E outcome \in DefaultOutcomes :
             LET result == IF outcome.kind = "returned"
                             THEN [source_id |-> None,
                                   source_name |-> <<"D","e","f","a","u","l","t"," ","A","l","g","e","r","i","a"," ","F","i","r","e"," ","N","e","w","s">>,
                                   articles_found |-> Len(outcome.value),
                                   status |-> "success", error |-> Null,
                                   ai_enhanced |-> FALSE]
                             ELSE [source_id |-> None,
                                   source_name |-> <<"D","e","f","a","u","l","t"," ","A","l","g","e","r","i","a"," ","F","i","r","e"," ","N","e","w","s">>,
                                   articles_found |-> 0,
                                   status |-> "error", error |-> Str(outcome.error),
                                   ai_enhanced |-> FALSE]
             IN  /\ results' = <<result>>
                 /\ total_articles' = result.articles_found
                 /\ ret' = Returned(Response(<<result>>, result.articles_found, FALSE, 0))
        /\ pc' = "done"
        /\ UNCHANGED <<fn, arg, sources, current, use_ai, batch,
                       high_confidence_articles, scraped>>
     \/ \* sources: is_available is asked, and the loop begins
        /\ SelectedSources(arg) # <<>>
        /\ sources' = SelectedSources(arg)
        /\ \E available \in BOOLEAN : use_ai' = available
        /\ current' = 1
        /\ pc' = "fetch"
        /\ UNCHANGED <<fn, arg, ret, batch, results, total_articles,
                       high_confidence_articles, scraped>>

\* scrape_custom_source up to its first return or to the call of
\* analyze_batch, lines 62-119, and after a return lines 580-613
FetchSource ==
  /\ pc = "fetch"
  /\ UNCHANGED <<registry, database>>
  /\ \/ \* the fetch fails: [] is returned
        \E failure \in FetchFailures :
          FinishSource(List(<<>>), Met(failure, 0, <<>>, FALSE, FALSE, NotCalled))
     \/ \* a document is fetched
        \E d \in 1..Len(DocumentPool), available \in BOOLEAN :
          \E found \in {Candidates(DocumentPool[d], ConfigOf(sources[current]))} :
            IF found.kind = "raised"
              THEN FinishSource(List(<<>>), Met("ok", d, <<>>, FALSE, FALSE, NotCalled))
            ELSE IF ~(use_ai /\ found.value # <<>>)
              THEN /\ ~available
                   /\ FinishSource(ReturnTopTen(ListOf(found.value)),
                                   Met("ok", d, found.value, FALSE, FALSE, NotCalled))
            ELSE IF ~available
              THEN FinishSource(ReturnTopTen(ListOf(found.value)),
                                Met("ok", d, found.value, TRUE, FALSE, NotCalled))
            ELSE /\ batch' = [document |-> d, articles |-> found.value]
                 /\ pc' = "analyze"
                 /\ UNCHANGED <<fn, arg, ret, sources, current, use_ai, results,
                                total_articles, high_confidence_articles, scraped>>

\* the call of analyze_batch ends: lines 119-128, then lines 580-613
AnalyzeBatch ==
  /\ pc = "analyze"
  /\ UNCHANGED <<registry, database>>
  /\ \E outcome \in AnalyzeOutcomes(batch.articles) :
       FinishSource(ReturnTopTen(AfterAnalyze(batch.articles, outcome)),
                    Met("ok", batch.document, batch.articles, TRUE, TRUE, outcome))

\* lines 616-631: the response
ManualScrapeReturn ==
  /\ pc = "return"
  /\ UNCHANGED <<registry, database>>
  /\ ret' = Returned(Response(results, total_articles, use_ai, high_confidence_articles))
  /\ pc' = "done"
  /\ UNCHANGED <<fn, arg, sources, current, use_ai, batch, results,
                 total_articles, high_confidence_articles, scraped>>

NextScrape == ManualScrapeStart \/ FetchSource \/ AnalyzeBatch \/ ManualScrapeReturn

SpecScrape == InitScrape /\ [][NextScrape]_vars

(***************************************************************************)
(* The pipeline without AI: the candidates scrape_custom_source returns for *)
(* a fetched document with use_ai false, assembled into incidents by the   *)
(* loop of get_active_fires.  The pipeline is run twice on the same        *)
(* document; each run draws its own uuids and clock readings.              *)
(***************************************************************************)

\* scrape_custom_source(source_config, use_ai=False) on a fetched document:
\* lines 86-111, the skipped AI block, return articles[:10]; an exception of
\* deduplicate_articles is caught at line 133 and [] is returned
ScrapeWithoutAI(document, source_config) ==
  LET found == Candidates(document, source_config)
  IN  IF found.kind = "raised" THEN <<>> ELSE Prefix(found.value, 10)

SetifHeadline == <<"I","n","c","e","n","d","i","e"," ","a_grave"," ","S","e_acute","t","i","f"," ",":"," ","e_acute","v","a","c","u","a","t","i","o","n"," ","e","n"," ","c","o","u","r","s">>

\* structured-data blocks: the Setif article, a relevant headline, an article
\* with a description, a link and a date, an article that is not about a fire
PipelineScripts ==
  << NewsArticle(Str(SetifHeadline)), ScriptPool[4], ScriptPool[8], ScriptPool[6] >>

\* two documents of the scrape, and the documents of at most MaxBlocks
\* structured-data blocks
PipelineDocuments ==
  {DocumentPool[2], DocumentPool[3]}
    \cup {[nodes |-> <<>>, scripts |-> blocks, containers |-> <<>>] :
            blocks \in BlocksOf(PipelineScripts)}

InitPipeline ==
  /\ fn = "pipeline"
  /\ arg \in PipelineDocuments
  /\ ret = NotCalled
  /\ NoScrape /\ NoSockets /\ NoDatabase

\* the first run of the pipeline on the document: extraction, relevance
\* filter, deduplication, then location, severity, status and assembly for
\* each candidate, and the final sort
FirstRun ==
  /\ fn = "pipeline"
  /\ ret.kind = "not_called"
  /\ \E articles \in {ScrapeWithoutAI(arg, SourceConfig)} :
       \E ids \in TuplesOf(Uuids, Len(articles)),
          now \in TuplesOf(ClockReadings, Len(articles)) :
         ret' = Returned(<<get_active_fires(articles, ids, now)>>)
  /\ UNCHANGED <<fn, arg>>
  /\ UNCHANGED pipeline
  /\ UNCHANGED <<registry, database>>

\* the second run, on the same document
SecondRun ==
  /\ fn = "pipeline"
  /\ ret.kind = "returned"
  /\ Len(ret.value) = 1
  /\ \E articles \in {ScrapeWithoutAI(arg, SourceConfig)} :
       \E ids \in TuplesOf(Uuids, Len(articles)),
          now \in TuplesOf(ClockReadings, Len(articles)) :
         ret' = Returned(Append(ret.value, get_active_fires(articles, ids, now)))
  /\ UNCHANGED <<fn, arg>>
  /\ UNCHANGED pipeline
  /\ UNCHANGED <<registry, database>>

NextPipeline == FirstRun \/ SecondRun

SpecPipeline == InitPipeline /\ [][NextPipeline]_vars

(***************************************************************************)
(* websockets: ConnectionManager, websocket_endpoint and                   *)
(* notify_clients_of_update.  Each client is one WebSocket object and one  *)
(* call of websocket_endpoint; the coroutines interleave at their awaits:  *)
(* websocket.accept, websocket.receive_text, connection.send_text.         *)
(* manager.connect has no await of its own and runs with the step that     *)
(* ends accept.  One broadcast runs at a time; when it has completed,      *)
(* another may start.                                                      *)
(***************************************************************************)

\* the most clients
MaxClients == 3

Clients == 1..MaxClients

\* if connection in self.active_connections:
\*     self.active_connections.remove(connection)
Remove(connections, connection) ==
  IF \E i \in 1..Len(connections) : connections[i] = connection
    THEN LET first == CHOOSE i \in 1..Len(connections) :
                        /\ connections[i] = connection
                        /\ \A j \in 1..(i - 1) : connections[j] # connection
         IN  SubSeq(connections, 1, first - 1)
               \o SubSeq(connections, first + 1, Len(connections))
    ELSE connections

\* broadcast with the dead connection left in the list
AfterSend_keeps_connection(connections, connection, sent) == connections

\* lines 22-28: the list after send_text to connection returned (sent) or
\* raised
AfterSend(connections, connection, sent) ==
  IF sent THEN connections ELSE Remove(connections, connection)

\* how await websocket.receive_text() ends
ReceiveOutcomes == {"text", "WebSocketDisconnect", "RuntimeError"}

InitSockets ==
  /\ fn = "websocket_endpoint" /\ arg = <<>> /\ ret = NotCalled
  /\ NoScrape /\ NoDatabase
  /\ active_connections = <<>>
  /\ handler = [c \in Clients |-> "idle"]
  /\ broadcast = [pc |-> "idle"]
  /\ attempts = <<>>

\* lines 37-38: websocket.accept returns and the websocket is registered, or
\* accept raises and the handler ends
WebsocketAccept ==
  /\ \E c \in Clients :
       /\ handler[c] = "idle"
       /\ \/ /\ active_connections' = Append(active_connections, c)
             /\ handler' = [handler EXCEPT ![c] = "receiving"]
          \/ /\ handler' = [handler EXCEPT ![c] = "ended"]
             /\ UNCHANGED active_connections
  /\ UNCHANGED <<broadcast, attempts, fn, arg, ret>>
  /\ UNCHANGED <<pipeline, database>>

\* lines 39-53: receive_text returns a text and the loop goes on, or it raises:
\* WebSocketDisconnect and every other Exception are caught at line 45, the
\* loop is left by break, and the handler returns
WebsocketReceive ==
  /\ \E c \in Clients, outcome \in ReceiveOutcomes :
       /\ handler[c] = "receiving"
       /\ handler' = IF outcome = "text" THEN handler
                     ELSE [handler EXCEPT ![c] = "ended"]
  /\ UNCHANGED <<active_connections, broadcast, attempts, fn, arg, ret>>
  /\ UNCHANGED <<pipeline, database>>

\* notify_clients_of_update: broadcast copies the list and awaits its first
\* send_text, or completes at once on an empty list
BroadcastStart ==
  /\ broadcast.pc \in {"idle", "done"}
  /\ broadcast' = [pc |-> IF active_connections = <<>> THEN "done" ELSE "sending",
                   connections_copy |-> active_connections, index |-> 1]
  /\ attempts' = <<>>
  /\ UNCHANGED <<active_connections, handler, fn, arg, ret>>
  /\ UNCHANGED <<pipeline, database>>

\* the send_text awaited returns or raises; the loop goes to the next
\* connection of the copy
BroadcastSend ==
  /\ broadcast.pc = "sending"
  /\ \E sent \in BOOLEAN :
       LET connection == broadcast.connections_copy[broadcast.index]
       IN  /\ active_connections' = AfterSend(active_connections, connection, sent)
           /\ attempts' = Append(attempts, [connection |-> connection, sent |-> sent])
  /\ broadcast' = [broadcast EXCEPT
                     !.index = @ + 1,
                     !.pc = IF broadcast.index = Len(broadcast.connections_copy)
                              THEN "done" ELSE "sending"]
  /\ UNCHANGED <<handler, fn, arg, ret>>
  /\ UNCHANGED <<pipeline, database>>

NextSockets == WebsocketAccept \/ WebsocketReceive \/ BroadcastStart \/ BroadcastSend

SpecSockets == InitSockets /\ [][NextSockets]_vars

(***************************************************************************)
(* The custom sources of the users: add_custom_source,                     *)
(* update_custom_source, toggle_source_status and delete_custom_source     *)
(* over the table custom_sources.  A row is its id, its user_id, the       *)
(* columns a CustomSource sets (one value, source) and is_active.  Each    *)
(* handler runs one statement, which the database runs atomically; the     *)
(* step of a handler records the request in fn and arg and its answer in   *)
(* ret.  arg.db says how the database behaved for the request.             *)
(***************************************************************************)

\* the most rows ever inserted
MaxRows == 2

\* user.sub
Users == {"u1", "u2"}

\* the CustomSource of a request body
CustomSources == {"a", "b"}

SourceIds == 1..MaxRows

\* get_db_connection raises, the statement raises, conn.close raises, or none
DatabaseOutcomes == {"ok", "connect_fails", "statement_fails", "close_fails"}

\* what a failing call of asyncpg raises
PostgresError == [exception |-> "PostgresError"]

\* HTTPException(status_code=404, detail="Source not found")
SourceNotFound == [status_code |-> 404, detail |-> "Source not found"]

\* str(e) of that HTTPException: status and detail, or the empty string of an
\* exception constructed without arguments, by the version of the framework
StrOfSourceNotFound == {"404: Source not found", ""}

\* HTTPException(status_code=500, detail=f"Failed to delete source: {str(e)}")
FailedToDelete(text) ==
  [status_code |-> 500, detail |-> <<"Failed to delete source: ", text>>]

\* CustomSourceResponse(id=row['id'], ...)
CustomSourceResponse(row) ==
  [id |-> row.id, source |-> row.source, is_active |-> row.is_active]

\* the column default of is_active
DefaultIsActive == TRUE

InitSources ==
  /\ fn = "custom_sources" /\ arg = <<>> /\ ret = NotCalled
  /\ NoScrape /\ NoSockets
  /\ custom_sources = {}
  /\ id_seq = 0

\* INSERT INTO custom_sources (user_id, ...) VALUES (...) RETURNING *
add_custom_source ==
  /\ id_seq < MaxRows
  /\ \E user \in Users, source \in CustomSources, db \in DatabaseOutcomes :
       LET row == [id |-> id_seq + 1, user_id |-> user, source |-> source,
                   is_active |-> DefaultIsActive]
       IN  /\ fn' = "add_custom_source"
           /\ arg' = [user |-> user, source |-> source, db |-> db]
           /\ IF db \in {"connect_fails", "statement_fails"}
                THEN /\ UNCHANGED database
                     /\ ret' = Raised(PostgresError)
                ELSE /\ custom_sources' = custom_sources \cup {row}
                     /\ id_seq' = id_seq + 1
                     /\ ret' = IF db = "close_fails" THEN Raised(PostgresError)
                               ELSE Returned(CustomSourceResponse(row))
  /\ UNCHANGED <<pipeline, registry>>

\* UPDATE custom_sources SET ... WHERE id = $5 AND user_id = $6 RETURNING *
update_custom_source ==
  /\ \E source_id \in SourceIds, user \in Users, source \in CustomSources,
        db \in DatabaseOutcomes :
       LET matched == {row \in custom_sources :
                         row.id = source_id /\ row.user_id = user}
           updated == {[row EXCEPT !.source = source] : row \in matched}
       IN  /\ fn' = "update_custom_source"
           /\ arg' = [source_id |-> source_id, user |-> user, source |-> source,
                      db |-> db]
           /\ IF db \in {"connect_fails", "statement_fails"}
                THEN /\ UNCHANGED database
                     /\ ret' = Raised(PostgresError)
                ELSE /\ custom_sources' = (custom_sources \ matched) \cup updated
                     /\ UNCHANGED id_seq
                     /\ ret' = IF db = "close_fails" THEN Raised(PostgresError)
                               ELSE IF updated = {} THEN Raised(SourceNotFound)
                               ELSE Returned(CustomSourceResponse(TheOnly(updated)))
  /\ UNCHANGED <<pipeline, registry>>

\* UPDATE custom_sources SET is_active = NOT is_active
\* WHERE id = $1 AND user_id = $2 RETURNING is_active
toggle_source_status ==
  /\ \E source_id \in SourceIds, user \in Users, db \in DatabaseOutcomes :
       LET matched == {row \in custom_sources :
                         row.id = source_id /\ row.user_id = user}
           updated == {[row EXCEPT !.is_active = ~row.is_active] : row \in matched}
       IN  /\ fn' = "toggle_source_status"
           /\ arg' = [source_id |-> source_id, user |-> user, db |-> db]
           /\ IF db \in {"connect_fails", "statement_fails"}
                THEN /\ UNCHANGED database
                     /\ ret' = Raised(PostgresError)
                ELSE /\ custom_sources' = (custom_sources \ matched) \cup updated
                     /\ UNCHANGED id_seq
                     /\ ret' = IF db = "close_fails" THEN Raised(PostgresError)
                               ELSE IF updated = {} THEN Raised(SourceNotFound)
                               ELSE Returned([is_active |-> TheOnly(updated).is_active])
  /\ UNCHANGED <<pipeline, registry>>

\* DELETE FROM custom_sources WHERE id = $1; every exception raised in the try,
\* the HTTPException of line 463 among them, is caught at line 467
delete_custom_source ==
  /\ \E source_id \in SourceIds, user \in Users, db \in DatabaseOutcomes :
       LET matched == {row \in custom_sources : row.id = source_id}
       IN  /\ fn' = "delete_custom_source"
           /\ arg' = [source_id |-> source_id, user |-> user, db |-> db]
           /\ IF db \in {"connect_fails", "statement_fails"}
                THEN /\ UNCHANGED database
                     /\ ret' = Raised(FailedToDelete("PostgresError"))
                ELSE /\ custom_sources' = custom_sources \ matched
                     /\ UNCHANGED id_seq
                     /\ IF db = "close_fails"
                          THEN ret' = Raised(FailedToDelete("PostgresError"))
                          ELSE IF matched = {}
                            THEN \E text \in StrOfSourceNotFound :
                                   ret' = Raised(FailedToDelete(text))
                            ELSE ret' = Returned([message |-> "Source deleted successfully"])
  /\ UNCHANGED <<pipeline, registry>>

NextSources ==
  \/ add_custom_source
  \/ update_custom_source
  \/ toggle_source_status
  \/ delete_custom_source

SpecSources == InitSources /\ [][NextSources]_vars

(***************************************************************************)
(* Properties                                                              *)
(***************************************************************************)

\* the incidents of a returned get_active_fires
FiresReturned == fn = "get_active_fires" /\ ret.kind = "returned"

ReturnedIncidents == {ret.value[i] : i \in 1..Len(ret.value)}

\* the article an incident was built from: the one of its link
ArticleOf(x) ==
  arg.value[CHOOSE i \in 1..Len(arg.value) : arg.value[i].link = x.link]

\* C5: every incident built by get_active_fires has 0.0 <= confidence <= 1.0
C5_ConfidenceInUnitInterval ==
  FiresReturned =>
    \A x \in ReturnedIncidents :
      FloatLe(F_0_0, x.confidence) /\ FloatLe(x.confidence, F_1_0)

\* an incident whose match earned every bonus: 0.7 + 0.2 + 0.1 + 0.1, capped at 1.0
C5_Witness ==
  /\ FiresReturned
  /\ \E x \in ReturnedIncidents : x.confidence = F_1_0

\* C7: an incident carries the fallback location (Unknown, no code, the default
\* coordinates) with confidence exactly 0.1 if and only if the resolver returned
\* no region; otherwise it carries the region's canonical name, its code and
\* coordinates, and the resolver's confidence, which is at least 0.7
C7_UnknownLocationIsDistinguishable ==
  FiresReturned =>
    \A x \in ReturnedIncidents :
      LET a      == ArticleOf(x)
          found  == extract_location_from_title(Get(a, "title", <<>>), Get(a, "summary", <<>>))
          fallback == /\ x.location.wilaya = <<"U","n","k","n","o","w","n">>
                      /\ x.location.wilaya_code = None
                      /\ x.location.lat = 367538 /\ x.location.lon = 30588
                      /\ x.confidence = F_0_1
      IN  /\ fallback <=> found.match = None
          /\ found.match # None =>
               /\ x.location.wilaya = found.match
               /\ \E w \in 1..Len(wilayas_map) :
                    /\ wilayas_map[w].primary = found.match
                    /\ wilayas_map[w].code = x.location.wilaya_code
               /\ \E c \in 1..Len(WILAYA_COORDINATES) :
                    /\ WILAYA_COORDINATES[c].name = found.match
                    /\ WILAYA_COORDINATES[c].code = x.location.wilaya_code
                    /\ WILAYA_COORDINATES[c].lat = x.location.lat
                    /\ WILAYA_COORDINATES[c].lon = x.location.lon
               /\ x.confidence = found.confidence
               /\ FloatLe(F_0_7, x.confidence)

\* one batch with an incident of unknown location and an incident of a matched region
C7_Witness ==
  /\ FiresReturned
  /\ \E x, y \in ReturnedIncidents :
       /\ x.location.wilaya = <<"U","n","k","n","o","w","n">> /\ x.confidence = F_0_1
       /\ y.location.wilaya = <<"S","e_acute","t","i","f">> /\ y.location.wilaya_code = 19
       /\ FloatLe(F_0_7, y.confidence)

\* the resolver has returned
LocationReturned == fn = "extract_location_from_title" /\ ret.kind = "returned"

\* the names that match the text on word boundaries, as positions of the gazetteer
MatchedNames(title, summary) ==
  {p \in NamePositions :
     FindWord(Lower(title \o <<" ">> \o summary),
              Lower(AllNames(wilayas_map[p[1]])[p[2]]))}

\* the confidence the claim gives a match, in tenths:
\* min(1.0, 0.7 + 0.2 [in the title] + 0.1 [canonical name] + 0.1 [fire context])
ClaimedTenths(p, title, summary) ==
  LET name == AllNames(wilayas_map[p[1]])[p[2]]
      sum  == 7 + (IF Contains(Lower(title), Lower(name)) THEN 2 ELSE 0)
                + (IF Lower(name) = Lower(wilayas_map[p[1]].primary) THEN 1 ELSE 0)
                + (IF ContainsAny(Lower(title \o <<" ">> \o summary), fire_context)
                     THEN 1 ELSE 0)
  IN  IF sum > 10 THEN 10 ELSE sum

\* C8: the resolver returns (none, 0.0) exactly when no name matches; otherwise
\* the region of the highest-confidence match, ties going to the region first in
\* gazetteer order, with a confidence of at least 0.7, and of at least 0.9 when
\* the text names one region and names it in the title
C8_ResolverAsClaimed ==
  LocationReturned =>
    LET matched == MatchedNames(arg.title, arg.summary)
        tenths  == [p \in matched |-> ClaimedTenths(p, arg.title, arg.summary)]
        best    == CHOOSE p \in matched : \A q \in matched :
                     tenths[q] < tenths[p] \/ (tenths[q] = tenths[p] /\ p[1] <= q[1])
    IN  /\ (ret.value.match = None /\ ret.value.confidence = F_0_0) <=> matched = {}
        /\ matched # {} =>
             /\ ret.value.match = wilayas_map[best[1]].primary
             /\ FloatLe(F_0_7, ret.value.confidence)
             /\ ( /\ \A p, q \in matched : p[1] = q[1]
                  /\ \E p \in matched :
                       Contains(Lower(arg.title), Lower(AllNames(wilayas_map[p[1]])[p[2]])) )
                => FloatLe(F_0_9, ret.value.confidence)

\* the severity classifier has returned
SeverityReturned == fn = "determine_severity" /\ ret.kind = "returned"

\* C10: determine_severity returns Critical, High or Medium: Critical whenever a
\* high-severity term is in the text, whatever medium terms are there too; High
\* when only medium terms are; Medium when neither tier is
C10_SeverityByPriority ==
  SeverityReturned =>
    LET text == Lower(arg.title \o <<" ">> \o arg.summary)
        high == \E k \in SeqToSet(high_severity_keywords) : Contains(text, k)
        medium == \E k \in SeqToSet(medium_severity_keywords) : Contains(text, k)
    IN  /\ ret.value \in {"Critical", "High", "Medium"}
        /\ Contains(arg.title \o <<" ">> \o arg.summary, <<"e_acute","v","a","c","u","a","t","i","o","n">>) => ret.value = "Critical"
        /\ high => ret.value = "Critical"
        /\ (medium /\ ~high) => ret.value = "High"
        /\ (~medium /\ ~high) => ret.value = "Medium"

\* a text with an evacuation term and a medium-tier term, classified Critical
C10_Witness ==
  /\ SeverityReturned
  /\ Contains(Lower(arg.title \o <<" ">> \o arg.summary), <<"e_acute","v","a","c","u","a","t","i","o","n">>)
  /\ Contains(Lower(arg.title \o <<" ">> \o arg.summary), <<"a","v","i","o","n">>)
  /\ ret.value = "Critical"

\* the status classifier has returned
StatusReturned == fn = "determine_status" /\ ret.kind = "returned"

\* the containment/extinguished terms as the claim lists them
ClaimedContainmentTerms ==
  << <<"c","o","n","t","a","i","n","e","d">>, <<"m","a","i_circumflex","t","r","i","s","e_acute">>, <<"e","x","t","i","n","g","u","i","s","h","e","d">>, <<"e_acute","t","e","i","n","t">>, <<"ar_alef_with_hamza_above","ar_tah","ar_feh","ar_yeh_with_hamza_above">> >>

\* C11: determine_status returns Contained when the text holds a containment or
\* extinguished term, Under Control when it holds one of the three under-control
\* terms and no containment term, Active otherwise; each under-control term on
\* its own yields Under Control
C11_StatusByPriority ==
  StatusReturned =>
    LET text == Lower(arg.title \o <<" ">> \o arg.summary)
        contained == \E k \in SeqToSet(ClaimedContainmentTerms) : Contains(text, k)
        controlled == \E k \in SeqToSet(under_control_keywords) : Contains(text, k)
    IN  /\ contained => ret.value = "Contained"
        /\ (controlled /\ ~contained) => ret.value = "Under Control"
        /\ (~controlled /\ ~contained) => ret.value = "Active"
        /\ \A k \in SeqToSet(under_control_keywords) :
             (arg.title = k /\ arg.summary = <<>>) => ret.value = "Under Control"

\* the relevance scorer has returned
RelevanceReturned == fn = "is_fire_related_advanced" /\ ret.kind = "returned"

\* the score as the claim states it: each keyword counted once
ClaimedScore(text) ==
  LET t == Lower(text)
      Hits(ks) == Cardinality({k \in SeqToSet(ks) : Contains(t, k)})
  IN  3 * Hits(critical_keywords) + 2 * Hits(medium_keywords) + Hits(context_keywords)
      - 5 * Hits(exclusion_keywords)
      + 2 * Cardinality({n \in 1..3 :
                           \/ n = 1 /\ HectaresPattern(t)
                           \/ n = 2 /\ ContainedPattern(t)
                           \/ n = 3 /\ RespondedPattern(t)})

\* C9: is_fire_related_advanced(text) is true exactly when the text has at least
\* 10 characters and its score is at least 3; the first example sentence is
\* relevant and the second, with an exclusion term, is not
C9_RelevantIffScoreAtLeastThree ==
  RelevanceReturned =>
    /\ ret.value = (Len(arg) >= 10 /\ ClaimedScore(arg) >= 3)
    /\ arg = ExampleRelevant => ret.value = TRUE
    /\ arg = ExampleIrrelevant => ret.value = FALSE

\* a text one critical keyword makes topical and one exclusion keyword rules out
C9_Witness ==
  /\ RelevanceReturned
  /\ Len(arg) >= 10
  /\ WeightedHits(Lower(arg), critical_keywords, 3) >= 3
  /\ WeightedHits(Lower(arg), exclusion_keywords, -5) < 0
  /\ ret.value = FALSE

\* deduplicate_articles has returned
DedupReturned == fn = "deduplicate_articles" /\ ret.kind = "returned"

\* the words of a candidate's lowercased, trimmed title, as a set
TitleWords(a) == SeqToSet(Split(Strip(Lower(a.title))))

\* near-duplicates as the claim defines them: the same title, or a word-set ratio
\* |A \cap B| / max(|A|, |B|) above 0.8
NearDuplicates(a, b) ==
  LET A == TitleWords(a)
      B == TitleWords(b)
      larger == IF Cardinality(A) >= Cardinality(B) THEN Cardinality(A) ELSE Cardinality(B)
  IN  \/ Strip(Lower(a.title)) = Strip(Lower(b.title))
      \/ 5 * Cardinality(A \cap B) > 4 * larger

\* the confidence of a candidate
ConfidenceOf(a) == Get(a, "confidence", F_0_5)

\* C3: no two candidates of the output of deduplicate_articles are
\* near-duplicates of each other, two candidates of one title included, and
\* every discarded candidate is a near-duplicate of an output candidate of at
\* least its confidence
C3_OutputHasNoNearDuplicates ==
  DedupReturned =>
    LET out == ret.value
    IN  /\ \A i, j \in 1..Len(out) : i < j => ~NearDuplicates(out[i], out[j])
        /\ \A i \in 1..Len(arg) :
             (\A j \in 1..Len(out) : out[j] # arg[i]) =>
               \E j \in 1..Len(out) :
                 /\ NearDuplicates(arg[i], out[j])
                 /\ FloatLe(ConfidenceOf(arg[i]), ConfidenceOf(out[j]))

\* C4: of two candidates whose titles share more than 80% of their words only
\* the one of higher confidence is returned, the earlier one on equal
\* confidence; two candidates whose titles overlap by 50% are both returned;
\* the empty list gives the empty list
C4_TwoCandidates ==
  DedupReturned =>
    /\ arg = <<>> => ret.value = <<>>
    /\ Len(arg) = 2 =>
         LET A == TitleWords(arg[1])
             B == TitleWords(arg[2])
             larger == IF Cardinality(A) >= Cardinality(B)
                         THEN Cardinality(A) ELSE Cardinality(B)
         IN  /\ 5 * Cardinality(A \cap B) > 4 * larger =>
                  ret.value = IF FloatLt(ConfidenceOf(arg[1]), ConfidenceOf(arg[2]))
                                THEN <<arg[2]>> ELSE <<arg[1]>>
             /\ (larger > 0 /\ 2 * Cardinality(A \cap B) = larger) =>
                  SeqToSet(ret.value) = {arg[1], arg[2]}

\* one of the three extraction strategies has returned
ExtractReturned ==
  /\ fn \in {"selector_scan", "extract_json_ld_articles", "auto_detect_articles"}
  /\ ret.kind = "returned"

\* the blocks of the input whose title is a text of at least 10 characters: the
\* text of a node, the headline or name of a structured-data block, the text of
\* the title node of a container
HasLongTitle(block) ==
  CASE fn = "selector_scan" -> Len(block.text) >= 10
    [] fn = "auto_detect_articles" ->
         block.title_node # None /\ Len(block.title_node.text) >= 10
    [] fn = "extract_json_ld_articles" ->
         LET data == IF block = JSONDecodeError THEN Null
                     ELSE IF TypeOf(block) = "list" /\ ValueOf(block) # <<>> THEN ValueOf(block)[1]
                     ELSE block
         IN  /\ TypeOf(data) = "dict"
             /\ \E key \in {"headline", "name"} \cap DOMAIN ValueOf(data) :
                  TypeOf(ValueOf(data)[key]) = "str" /\ Len(ValueOf(ValueOf(data)[key])) >= 10

\* C14: get_active_fires returns one incident per input article, sorted
\* descending by (confidence, timestamp): of two adjacent incidents the first
\* has the greater confidence, or the same confidence and a timestamp that is
\* not below the second's as a string
C14_SortedByConfidenceThenTimestamp ==
  FiresReturned =>
    /\ Len(ret.value) = Len(arg.value)
    /\ \A i \in 1..Len(arg.value) :
         Cardinality({j \in 1..Len(ret.value) : ret.value[j].link = arg.value[i].link}) = 1
    /\ \A j \in 1..(Len(ret.value) - 1) :
         \/ FloatLt(ret.value[j + 1].confidence, ret.value[j].confidence)
         \/ /\ ret.value[j].confidence = ret.value[j + 1].confidence
            /\ ~StrLt(ret.value[j].timestamp, ret.value[j + 1].timestamp)

\* two articles of equal confidence, the later one second in the input and
\* first in the output
C14_Witness ==
  /\ FiresReturned
  /\ Len(ret.value) = 2
  /\ ret.value[1].confidence = ret.value[2].confidence
  /\ StrLt(ret.value[2].timestamp, ret.value[1].timestamp)
  /\ ret.value[1].link = arg.value[2].link

\* the pipeline has run at least once
PipelineReturned == fn = "pipeline" /\ ret.kind = "returned"

\* the document of one structured-data article, the Setif headline
SetifDocument ==
  [nodes |-> <<>>, scripts |-> <<NewsArticle(Str(SetifHeadline))>>, containers |-> <<>>]

\* C13: the structured-data article "Incendie a Setif : evacuation en cours",
\* through the pipeline without AI, yields exactly one incident, located in
\* Setif, Critical, Active, with a confidence of at least 0.9
C13_SetifEndToEnd ==
  (PipelineReturned /\ arg = SetifDocument) =>
    \A r \in 1..Len(ret.value) :
      /\ Len(ret.value[r]) = 1
      /\ ret.value[r][1].location.wilaya = <<"S","e_acute","t","i","f">>
      /\ ret.value[r][1].severity = "Critical"
      /\ ret.value[r][1].status = "Active"
      /\ FloatLe(F_0_9, ret.value[r][1].confidence)

\* the Setif document has been through the pipeline and gave one incident
C13_Witness ==
  /\ PipelineReturned
  /\ arg = SetifDocument
  /\ Len(ret.value[1]) = 1
  /\ ret.value[1][1].description = SetifHeadline \o <<":", " ">>
  /\ ret.value[1][1].location.wilaya_code = 19

\* C15: two runs of the pipeline without AI on the same document give the same
\* number of incidents in the same order, equal in every field but the id
C15_RunsDifferOnlyInId ==
  (PipelineReturned /\ Len(ret.value) = 2) =>
    /\ Len(ret.value[1]) = Len(ret.value[2])
    /\ \A i \in 1..Len(ret.value[1]) :
         /\ DOMAIN ret.value[1][i] = DOMAIN ret.value[2][i]
         /\ \A field \in DOMAIN ret.value[1][i] \ {"id"} :
              ret.value[1][i][field] = ret.value[2][i][field]

\* two runs on a document of two candidates, the ids of the second run being
\* other ids
C15_Witness ==
  /\ PipelineReturned
  /\ Len(ret.value) = 2
  /\ Len(ret.value[1]) = 2
  /\ ret.value[1][1].description # ret.value[1][2].description
  /\ ret.value[1][1].id # ret.value[2][1].id

\* the structured-data strategy has returned
JsonLdReturned == fn = "extract_json_ld_articles" /\ ret.kind = "returned"

\* a structured-data block in one of the malformed forms: invalid JSON, a value
\* that is no mapping, a list whose first element is no mapping, a description
\* that is no string
Malformed(block) ==
  IF block = JSONDecodeError THEN TRUE
  ELSE
    LET data == IF TypeOf(block) = "list"
                  THEN (IF ValueOf(block) # <<>> THEN ValueOf(block)[1] ELSE Dict(<<>>))
                  ELSE block
    IN  \/ TypeOf(data) # "dict"
        \/ /\ TypeOf(data) = "dict"
           /\ "description" \in DOMAIN ValueOf(data)
           /\ TypeOf(ValueOf(data)["description"]) # "str"

\* the candidates of the blocks that yield one when alone, in document order
RECURSIVE CandidatesOfBlocks(_)
CandidatesOfBlocks(blocks) ==
  IF blocks = <<>> THEN <<>>
  ELSE LET r == JsonLdBlock(Head(blocks), SourceConfig)
       IN  (IF r.kind = "append" THEN <<r.article>> ELSE <<>>)
             \o CandidatesOfBlocks(Tail(blocks))

\* C12: in extract_json_ld_articles a malformed block is skipped on its own: when
\* every block of a document is malformed or well-formed, the function returns
\* the candidate of every well-formed relevant block, before or after a
\* malformed one
C12_MalformedBlocksSkippedIndividually ==
  ( /\ JsonLdReturned
    /\ \A i \in 1..Len(arg) :
         Malformed(arg[i]) \/ JsonLdBlock(arg[i], SourceConfig).kind # "raised" )
  => ret.value = CandidatesOfBlocks(arg)

\* C16: every candidate of each of the three extraction strategies carries as
\* content its title, one space, and its summary
C16_ContentIsTitleAndSummary ==
  ExtractReturned =>
    \A i \in 1..Len(ret.value) :
      ret.value[i].content = ret.value[i].title \o <<" ">> \o ret.value[i].summary

\* C6: every candidate of each of the three extraction strategies has a title
\* of at least 10 characters, and a block whose title is shorter yields no
\* candidate: there are no more candidates than blocks with such a title
C6_TitlesHaveTenCharacters ==
  ExtractReturned =>
    /\ \A i \in 1..Len(ret.value) :
         ret.value[i].title # <<>> /\ Len(ret.value[i].title) >= 10
    /\ Len(ret.value) <= Cardinality({i \in 1..Len(arg) : HasLongTitle(arg[i])})

\* a structured-data document with a relevant headline of 8 characters and a
\* relevant headline of 13: one candidate, of the second
C6_Witness ==
  /\ ExtractReturned
  /\ fn = "extract_json_ld_articles"
  /\ arg = <<NewsArticle(Str(ShortTitle)), NewsArticle(Str(TitlePool[2]))>>
  /\ Len(ret.value) = 1
  /\ ret.value[1].title = TitlePool[2]

\* the enrichment call of a source failed: analyze_batch raised, timed out, or
\* returned a value that is no list or a list with an item that is no mapping
EnrichmentFailed(h) ==
  \/ h.analyze.kind = "raised"
  \/ /\ h.analyze.kind = "returned"
     /\ \/ TypeOf(h.analyze.value) # "list"
        \/ \E i \in 1..Len(h.analyze.value.list) :
             TypeOf(h.analyze.value.list[i]) # "dict"

\* C1: when the service reported itself available and the enrichment call
\* failed, scrape_custom_source returns the deduplicated candidates as they
\* were before the call, capped at 10, none removed and none modified
C1_EnrichmentFailureKeepsCandidates ==
  \A i \in 1..Len(scraped) :
    (scraped[i].available /\ EnrichmentFailed(scraped[i])) =>
      scraped[i].returned = ListOf(Prefix(scraped[i].candidates, 10))

\* analyze_batch answered the call for source h with a list of dicts
EnrichmentSucceeded(h) ==
  /\ h.analyze.kind = "returned"
  /\ TypeOf(h.analyze.value) = "list"
  /\ \A j \in 1..Len(h.analyze.value.list) : TypeOf(h.analyze.value.list[j]) = "dict"

\* the confidence a candidate is ranked by, none counting as 0
Rank(a) == Get(a.dict, "confidence", F_0_0)

\* the candidates that remain for source h: the deduplicated candidates, or,
\* when the enrichment succeeded, those of its response with a confidence of
\* at least 0.3
Remaining(h) ==
  IF EnrichmentSucceeded(h)
    THEN {h.analyze.value.list[j] : j \in {k \in 1..Len(h.analyze.value.list) :
                                             FloatLe(F_0_3, Rank(h.analyze.value.list[k]))}}
    ELSE {Dict(h.candidates[j]) : j \in 1..Len(h.candidates)}

\* the calls of scrape_custom_source that fetched a document and whose
\* enrichment, if called, raised or answered with a list of dicts
Completed(h) ==
  /\ h.fetch = "ok"
  /\ h.analyze.kind = "returned" => EnrichmentSucceeded(h)

\* C17: scrape_custom_source returns at most 10 candidates, the highest ranked
\* of those that remain after deduplication and the AI filter: no candidate
\* left out has a higher confidence than a candidate returned
C17_TopTenByConfidence ==
  \A i \in 1..Len(scraped) :
    Completed(scraped[i]) =>
      LET out == scraped[i].returned.list
          kept == {out[j] : j \in 1..Len(out)}
      IN  /\ Len(out) <= 10
          /\ kept \subseteq Remaining(scraped[i])
          /\ \A x \in Remaining(scraped[i]) \ kept : \A y \in kept :
               ~FloatLt(Rank(y), Rank(x))

\* C18: when the enrichment call succeeded, every candidate returned has a
\* confidence of at least 0.3 after enrichment, a candidate without confidence
\* counting as 0; when AI is disabled or the service is unavailable, the
\* candidates are returned with the confidence their strategy gave them
C18_FilterAfterEnrichmentOnly ==
  \A i \in 1..Len(scraped) :
    LET h == scraped[i]
    IN  /\ (h.fetch = "ok" /\ EnrichmentSucceeded(h)) =>
             \A j \in 1..Len(h.returned.list) : FloatLe(F_0_3, Rank(h.returned.list[j]))
        /\ (h.fetch = "ok" /\ (~use_ai \/ ~h.available)) =>
             h.returned = ListOf(Prefix(h.candidates, 10))

\* a successful enrichment of two candidates, one left without a confidence
\* and removed, the other returned
C18_Witness ==
  \E i \in 1..Len(scraped) :
    /\ EnrichmentSucceeded(scraped[i])
    /\ Len(scraped[i].analyze.value.list) = 2
    /\ "confidence" \notin DOMAIN scraped[i].analyze.value.list[1].dict
    /\ scraped[i].returned = List(<<scraped[i].analyze.value.list[2]>>)

\* every call of scrape_custom_source so far is the call for another source,
\* in the order of the sources; analyze_batch was called only for a source
\* with a candidate, after is_available answered true, with every candidate
CallsSoFar ==
  /\ Len(scraped) <= Len(sources)
  /\ \A i \in 1..Len(scraped) :
       /\ scraped[i].source_id = sources[i].id
       /\ scraped[i].analyze.kind # "not_called" =>
            /\ scraped[i].fetch = "ok"
            /\ scraped[i].asked /\ scraped[i].available
            /\ scraped[i].candidates # <<>>
  /\ pc \in {"fetch", "analyze"} => Len(scraped) = current - 1
  /\ pc = "analyze" =>
       batch.articles # <<>>
         /\ Returned(batch.articles) =
              Candidates(DocumentPool[batch.document], ConfigOf(sources[current]))

\* a step that ends a fetch goes on to the enrichment of the same source or to
\* the next source; a step that ends analyze_batch goes on to the next source
NoCallRepeated ==
  /\ pc = "fetch" => \/ pc' = "analyze" /\ current' = current
                     \/ pc' \in {"fetch", "return"} /\ current' = current + 1
  /\ pc = "analyze" => pc' \in {"fetch", "return"} /\ current' = current + 1

\* C19: in one manual_scrape the page of each source is fetched at most once
\* and analyze_batch is called at most once for it, with all its candidates,
\* only after is_available answered true and only with a candidate; a failed
\* fetch or a failed enrichment call is not repeated
C19_CallsAtMostOnce == []CallsSoFar /\ [][NoCallRepeated]_vars

\* a run of two sources: the fetch of the first failed, the enrichment call of
\* the second raised, and there were two calls of scrape_custom_source
C19_Witness ==
  /\ pc = "done"
  /\ Len(scraped) = 2
  /\ scraped[1].fetch \in FetchFailures
  /\ scraped[2].analyze.kind = "raised"

\* the sum of articles_found over a list of ScrapeResults
RECURSIVE ArticlesFound(_)
ArticlesFound(all_results) ==
  IF all_results = <<>> THEN 0
  ELSE all_results[1].articles_found + ArticlesFound(Tail(all_results))

\* with sources selected, the results so far are those of the sources whose
\* call of scrape_custom_source has returned, one each, in source order; the
\* source in progress has none; the response has one for every source and
\* the sum of their articles_found as total_articles
OneResultPerFinishedSource ==
  sources # <<>> =>
    /\ Len(results) = Len(scraped)
    /\ \A i \in 1..Len(results) :
         /\ results[i].source_id = sources[i].id
         /\ scraped[i].source_id = sources[i].id
    /\ pc \in {"fetch", "analyze"} => Len(results) = current - 1
    /\ pc \in {"return", "done"} => Len(results) = Len(sources)
    /\ pc = "done" =>
         /\ ret.kind = "returned"
         /\ ret.value.results = results
         /\ ret.value.total_articles = ArticlesFound(results)

\* the list of results changes only by one entry appended, in the step that
\* ends the pipeline of the current source
AppendedWhenSourceCompletes ==
  (sources # <<>> /\ results' # results) =>
    /\ pc \in {"fetch", "analyze"}
    /\ current' = current + 1
    /\ Len(results') = Len(results) + 1
    /\ SubSeq(results', 1, Len(results)) = results
    /\ results'[Len(results')].source_id = sources[current].id

\* C20: manual_scrape over selected sources appends exactly one ScrapeResult
\* for each source, in source order, and only when the source's fetch and
\* extraction have completed; at return total_articles is the sum of
\* articles_found over the results
C20_OneResultPerSource ==
  []OneResultPerFinishedSource /\ [][AppendedWhenSourceCompletes]_vars

\* a response over two sources, each with articles found
C20_Witness ==
  /\ pc = "done"
  /\ ret.kind = "returned"
  /\ Len(sources) = 2
  /\ Len(results) = 2
  /\ results[1].articles_found > 0
  /\ results[2].articles_found > results[1].articles_found
  /\ ret.value.total_articles = results[1].articles_found + results[2].articles_found

\* C2: the ScrapeResult of a source whose fetch failed has no article, status
\* "error" and an error that is not empty, and the batch goes on: at the
\* response every selected source has its result, in order
C2_FetchFailureIsReported ==
  /\ \A i \in 1..Len(scraped) :
       scraped[i].fetch \in FetchFailures =>
         /\ results[i].articles_found = 0
         /\ results[i].status = "error"
         /\ Truthy(results[i].error)
  /\ (pc = "done" /\ ret.kind = "returned" /\ sources # <<>>) =>
       /\ Len(results) = Len(sources)
       /\ \A i \in 1..Len(sources) : results[i].source_id = sources[i].id

\* the websockets in manager.active_connections
Registered == {active_connections[i] : i \in 1..Len(active_connections)}

\* C21: once the websocket_endpoint of a client has ended, by a disconnect of
\* the client or another failure of receive_text, its websocket is not in
\* manager.active_connections: the registry holds only connections whose
\* handler is running
C21_EndedHandlerIsNotRegistered ==
  \A c \in DOMAIN handler : handler[c] = "ended" => c \notin Registered

\* the connections the broadcast has sent to, in order
Attempted == [i \in 1..Len(attempts) |-> attempts[i].connection]

\* the sends of the broadcast so far went, one each, to the first connections
\* of the copy; no connection whose send failed is registered; a completed
\* broadcast has sent to every connection of the copy
BroadcastSoFar ==
  broadcast.pc \in {"sending", "done"} =>
    /\ Attempted = SubSeq(broadcast.connections_copy, 1, Len(attempts))
    /\ \A i, j \in 1..Len(attempts) :
         attempts[i].connection = attempts[j].connection => i = j
    /\ \A i \in 1..Len(attempts) :
         ~attempts[i].sent => attempts[i].connection \notin Registered
    /\ broadcast.pc = "sending" => Len(attempts) = broadcast.index - 1
    /\ broadcast.pc = "done" => Len(attempts) = Len(broadcast.connections_copy)

\* the copy of a broadcast that starts is the list of the registered
\* connections, and the copy does not change while the broadcast runs
CopyIsRegistryAtStart ==
  /\ (broadcast.pc \in {"idle", "done"} /\ broadcast'.pc \in {"sending", "done"}
        /\ <<broadcast, attempts>>' # <<broadcast, attempts>>)
       => (broadcast'.connections_copy = active_connections /\ attempts' = <<>>)
  /\ broadcast.pc = "sending" =>
       broadcast'.connections_copy = broadcast.connections_copy

\* C22: broadcast attempts one send to every connection registered when it
\* started, whatever connects meanwhile; a failed send does not stop the
\* sends to the others; when it completes no connection whose send failed is
\* registered
C22_BroadcastReachesEveryConnection ==
  []BroadcastSoFar /\ [][CopyIsRegistryAtStart]_vars

\* a completed broadcast to two connections: the first send failed, the
\* second was made and succeeded, and a third client connected meanwhile
C22_Witness ==
  /\ broadcast.pc = "done"
  /\ Len(attempts) = 2
  /\ ~attempts[1].sent /\ attempts[2].sent
  /\ Len(active_connections) = 2
  /\ active_connections[1] = attempts[2].connection
  /\ active_connections[2] \notin {attempts[1].connection, attempts[2].connection}

\* the rows of the other users are in the table after the step as they were
\* before the request of arg'.user
RowsOfOthersKept ==
  \A row \in custom_sources : row.user_id # arg'.user => row \in custom_sources'

\* C23: an add, update, toggle or delete of user u leaves every custom source
\* of another user in the table, unchanged
C23_SourcesOfOthersUntouched == [][RowsOfOthersKept]_vars

\* update, toggle and add leave the rows of the other users alone
OthersKeptButByDelete ==
  [][fn' # "delete_custom_source" => RowsOfOthersKept]_vars

\* the answer of a delete_custom_source step: 404 "Source not found" when no
\* row has the id and the database did not fail, 500 only when the database
\* failed, the message only when a row was deleted
DeleteAnswer ==
  fn' = "delete_custom_source" =>
    LET exists == \E row \in custom_sources : row.id = arg'.source_id
    IN  /\ (~exists /\ arg'.db = "ok") => ret' = Raised(SourceNotFound)
        /\ (ret'.kind = "raised" /\ ret'.error.status_code = 500)
             => arg'.db # "ok"
        /\ ret'.kind = "returned" =>
             (exists /\ custom_sources' # custom_sources)

\* C24: delete_custom_source answers 404 "Source not found" when no source has
\* the id, 500 only when the database operation fails, and the success message
\* only when a row was deleted
C24_DeleteAnswers == [][DeleteAnswer]_vars

\* the success message is answered only when a row was deleted
DeleteSucceedsOnlyWhenDeleted ==
  [][(fn' = "delete_custom_source" /\ ret'.kind = "returned")
       => custom_sources' # custom_sources]_vars

====
